---------------------------- MODULE Spec2Model ----------------------------
(***************************************************************************)
(* A model of game.js: the sprite engine (animation clock, movement and    *)
(* interaction passes, hit-rectangle test), the phase state machine        *)
(* (setGamePhase, startGameAndSound) and the game loop.                     *)
(*                                                                         *)
(* Lengths are in half pixels (the Player moves 2.5 px and a Lamb 1.5 px   *)
(* per tick), so every coordinate, size and speed of the source appears    *)
(* multiplied by 2 and stays an integer.                                   *)
(*                                                                         *)
(* JavaScript objects are modelled by a heap: a function from object ids   *)
(* to sprite records.  gamestate.sprites / gamestate.bgsprites are         *)
(* sequences of ids, gamestate.player / gamestate.lamb are ids (Null = 0). *)
(***************************************************************************)
EXTENDS Integers, Sequences, FiniteSets, TLC

VARIABLES
    gamestate,       \* the global `gamestate` object (game.js:694)
    heap,            \* the Sprite objects reachable from gamestate
    hiScore,         \* the global `hiScore` (game.js:696)
    currentBgMusic,  \* the global `currentBgMusic` (game.js:624)
    ready,           \* the global `ready` of the game loop (game.js:850)
    started,         \* TRUE once setupSamples().then(...) has started gameloop
    log,             \* history: what the last handler did, in order
    run,             \* history: the defeat bookkeeping of the current run
    budget           \* how many ticks, inputs, asset loads (and events: inputs and
                     \* asset loads together) the behaviour may still see

vars == <<gamestate, heap, hiScore, currentBgMusic, ready, started, log, run, budget>>

---------------------------------------------------------------------------
(* Bounds of the model *)

MaxTicks == 2          \* rendered ticks of a behaviour that starts at page load
MaxInputs == 2         \* key / click events of a behaviour that starts at page load
MaxLoads == 6          \* asset-load events of a behaviour that starts at page load
MaxRunTicks == 2       \* ticks of a behaviour that starts inside a run
MaxRunEvents == 2      \* key, click and asset-load events of a behaviour that starts inside a run
MaxExtras == 1         \* entities placed next to Player and Lamb in a drawn run state
MaxCalls == 501        \* nextFrame() calls followed on one sprite: one more than the longest step
MaxNulls == 2          \* nextFrame() calls counted on a sprite that is not ready yet
MaxLiveTicks == 1      \* rendered ticks of a behaviour followed up to the end of the wait
MaxLiveInputs == 2     \* key / click events of a behaviour followed up to the end of the wait
MaxLiveLoads == 6      \* asset-load events of it: the three attract overlays, or a Player

---------------------------------------------------------------------------
(* Constants of game.js *)

Null == 0

PLAYFIELD_WIDTH == 2 * 500
PLAYFIELD_HEIGHT == 2 * 500
ROAD_LINE_YS == << (PLAYFIELD_HEIGHT \div 4) * 1,
                   (PLAYFIELD_HEIGHT \div 4) * 2,
                   (PLAYFIELD_HEIGHT \div 4) * 3 >>

PHASE_ATTRACT == "PHASE_ATTRACT"
PHASE_RUNNING == "PHASE_RUNNING"
PHASE_GAME_OVER == "GAME_OVER"

STATE_GROUNDED == "STATE_GROUNDED"
STATE_THROWN == "STATE_THROWN"

KNIFE_COOLDOWN_FRAMES == 20

NoInputs == [left |-> FALSE, right |-> FALSE, down |-> FALSE, up |-> FALSE,
             fire |-> FALSE]   \* `fire` is absent until a key event: it reads as falsy

INITIAL_GAMESTATE ==
    [ phase |-> PHASE_ATTRACT,
      frameDelay |-> 10,
      bgsprites |-> << >>,
      sprites |-> << >>,
      inputs |-> NoInputs,
      player |-> Null,
      teabags |-> 3,
      knives |-> 3,
      score |-> 0,
      knifeThrowCooldown |-> KNIFE_COOLDOWN_FRAMES,
      lamb |-> Null,
      lambSpeed |-> 3,             \* 1.5 px
      roadSpeed |-> 2 * 3,
      broccoliFrequency |-> 40,
      nextBroccoli |-> 40,
      onionFrequency |-> 200,
      minOnionScore |-> 5000,
      nextOnion |-> 0,
      onionSpeed |-> 2 * 4,
      knifeFrequency |-> 400,
      nextKnife |-> 400,
      roadLineFrequency |-> 100,
      nextRoadLine |-> 0,
      sidewalkFrequency |-> 41,
      nextSidewalk |-> 0,
      gameOverMusicDelay |-> 50 ]

---------------------------------------------------------------------------
(* Sprites *)

\* The animation tables handed to the Sprite constructor: name -> <<frame, ticks>>*
Animations(name) ==
    CASE name = "TitleScreen" -> [idle |-> << <<0, 500>> >>]
      [] name = "ClickToStart" ->
            [idle |-> << <<3,4>>, <<4,4>>, <<3,4>>, <<4,4>>,
                         <<0,6>>, <<1,6>>, <<2,6>>,
                         <<3,4>>, <<4,4>>, <<3,4>>, <<4,4>> >>]
      [] name = "Credits" ->
            [credits |-> << <<0,20>>, <<1,20>>, <<2,20>>, <<3,20>>, <<4,20>> >>]
      [] name = "GameOver" -> [idle |-> << <<0, 500>> >>]
      [] name = "NewHiScore" -> [flashing |-> << <<0,5>>, <<1,5>> >>]
      [] name = "Player" ->
            [idle |-> << <<0,50>> >>,
             walking |-> << <<1,5>>, <<2,5>> >>,
             dead |-> << <<3,500>> >>,
             wielding |-> << <<4,5>>, <<5,5>>, <<6,5>>, <<7,5>> >>]
      [] name = "Lamb" ->
            [idle |-> << <<0,50>> >>,
             running |-> << <<1,5>>, <<2,5>>, <<3,5>> >>,
             dead |-> << <<4,500>> >>]
      [] name = "Broccoli" -> [idle |-> << <<0,50>> >>]
      [] name = "Onion" -> [rolling |-> << <<0,5>>, <<1,5>>, <<2,5>>, <<3,5>> >>]
      [] name = "Knife" ->
            [grounded |-> << <<0,50>> >>,
             thrown |-> << <<0,2>>, <<1,2>>, <<2,2>>, <<3,2>> >>]
      [] name = "Road Line" -> [idle |-> << <<0,500>> >>]
      [] name = "Sidewalk" -> [idle |-> << <<0,500>> >>]

\* Object.keys(animations)[0]
FirstAnimation(name) ==
    CASE name = "Credits" -> "credits"
      [] name = "NewHiScore" -> "flashing"
      [] name = "Onion" -> "rolling"
      [] name = "Knife" -> "grounded"
      [] OTHER -> "idle"

\* The natural width of a sprite sheet, known once its image has loaded.  The sheets
\* are assets outside game.js; the overlay widths are the ones its centering uses.
ImageWidth(name) ==
    CASE name = "TitleScreen" -> 2 * 380
      [] name = "ClickToStart" -> 2 * 256
      [] name = "Credits" -> 2 * 400
      [] name = "GameOver" -> 2 * 304
      [] name = "NewHiScore" -> 2 * 240
      [] name = "Sidewalk" -> 2 * 128
      [] OTHER -> 2 * 32

NoHitbox == [x |-> 0, y |-> 0, w |-> 0, h |-> 0]

\* Sprite.constructor; `width` is image.width (0 until the image has loaded),
\* `loaded` tells that image.onload has run, `sound` that this.sound holds a node.
Sprite(name, frameheight) ==
    [ name |-> name, frameheight |-> frameheight, x |-> 0, y |-> 0,
      animation |-> FirstAnimation(name), animFrame |-> 0, animFrameStep |-> 0,
      ready |-> FALSE, loaded |-> FALSE, width |-> 0,
      hasHitbox |-> FALSE, hitbox |-> NoHitbox,
      speed |-> 0, dead |-> FALSE, state |-> "", velocity |-> <<0, 0>>,
      sound |-> FALSE ]

\* Sprite.setAnimation
setAnimation(s, name) ==
    [s EXCEPT !.animation = name, !.animFrame = 0, !.animFrameStep = 0]

\* The step list this.animation
AnimationOf(s) == Animations(s.name)[s.animation]

\* Sprite.nextFrame with `>` for `>=` in line 112
nextFrameLate(s) ==
    IF ~s.ready THEN [sprite |-> s, image |-> -1]
    ELSE LET current == AnimationOf(s)[s.animFrame + 1]
             adv == s.animFrameStep > current[2]
             frame == IF ~adv THEN s.animFrame
                      ELSE IF s.animFrame + 1 >= Len(AnimationOf(s)) THEN 0
                      ELSE s.animFrame + 1
             step == IF adv THEN 0 ELSE s.animFrameStep
         IN [sprite |-> [s EXCEPT !.animFrame = frame, !.animFrameStep = step + 1],
             image |-> AnimationOf(s)[frame + 1][1]]

\* Sprite.nextFrame without `if (!this.ready) return null;` ahead of the clock
nextFrameUnready(s) ==
    LET current == AnimationOf(s)[s.animFrame + 1]
        adv == s.animFrameStep >= current[2]
        frame == IF ~adv THEN s.animFrame
                 ELSE IF s.animFrame + 1 >= Len(AnimationOf(s)) THEN 0
                 ELSE s.animFrame + 1
        step == IF adv THEN 0 ELSE s.animFrameStep
    IN [sprite |-> [s EXCEPT !.animFrame = frame, !.animFrameStep = step + 1],
        image |-> IF s.ready THEN AnimationOf(s)[frame + 1][1] ELSE -1]

\* Sprite.nextFrame: the sprite afterwards and the frame returned (-1 for null)
nextFrame(s) ==
    IF ~s.ready THEN [sprite |-> s, image |-> -1]
    ELSE LET current == AnimationOf(s)[s.animFrame + 1]
             adv == s.animFrameStep >= current[2]
             frame == IF ~adv THEN s.animFrame
                      ELSE IF s.animFrame + 1 >= Len(AnimationOf(s)) THEN 0
                      ELSE s.animFrame + 1
             step == IF adv THEN 0 ELSE s.animFrameStep
         IN [sprite |-> [s EXCEPT !.animFrame = frame, !.animFrameStep = step + 1],
             image |-> AnimationOf(s)[frame + 1][1]]

\* Sprite.silence
silence(s) == [s EXCEPT !.sound = FALSE]

\* Sprite.isOnScreen
isOnScreen(s) ==
    IF s.x > PLAYFIELD_WIDTH \/ s.x < -s.width THEN FALSE
    ELSE IF s.y > PLAYFIELD_HEIGHT \/ s.y < -s.frameheight THEN FALSE
    ELSE TRUE

\* Sprite.finished (Knife.finished returns the same value)
finished(s) == ~isOnScreen(s)

\* Sprite.ensureFullyOnScreen
ensureFullyOnScreen(s) ==
    IF ~s.ready THEN s
    ELSE LET x1 == IF s.x < 0 THEN 0 ELSE s.x
             x2 == IF x1 > PLAYFIELD_WIDTH - s.width THEN PLAYFIELD_WIDTH - s.width ELSE x1
             y1 == IF s.y < 0 THEN 0 ELSE s.y
             y2 == IF y1 > PLAYFIELD_HEIGHT - s.frameheight
                   THEN PLAYFIELD_HEIGHT - s.frameheight ELSE y1
         IN [s EXCEPT !.x = x2, !.y = y2]

\* Sprite.intersects with `<=` and `>=` for `<` and `>`
intersectsOrTouches(a, b) ==
    IF ~a.hasHitbox \/ ~b.hasHitbox THEN "undefined"
    ELSE LET r1x == a.x + a.hitbox.x
             r1y == a.y + a.hitbox.y
             r2x == b.x + b.hitbox.x
             r2y == b.y + b.hitbox.y
         IN IF /\ r1x <= r2x + b.hitbox.w
               /\ r1x + a.hitbox.w >= r2x
               /\ r1y <= r2y + b.hitbox.h
               /\ a.hitbox.h + r1y >= r2y
            THEN "true" ELSE "false"

\* Sprite.intersects: "undefined" when a hitbox is missing, else "true" / "false"
intersects(a, b) ==
    IF ~a.hasHitbox \/ ~b.hasHitbox THEN "undefined"
    ELSE LET r1x == a.x + a.hitbox.x
             r1y == a.y + a.hitbox.y
             r2x == b.x + b.hitbox.x
             r2y == b.y + b.hitbox.y
         IN IF /\ r1x < r2x + b.hitbox.w
               /\ r1x + a.hitbox.w > r2x
               /\ r1y < r2y + b.hitbox.h
               /\ a.hitbox.h + r1y > r2y
            THEN "true" ELSE "false"

\* The truthiness of a JavaScript value, as `if (this.intersects(other))` reads it
Truthy(v) == v = "true"

\* image.onload: the sheet's width becomes known; a hitbox is given unless one was set
ImageOnload(s) ==
    [s EXCEPT !.loaded = TRUE, !.width = ImageWidth(s.name),
              !.hasHitbox = TRUE,
              !.hitbox = IF s.hasHitbox THEN s.hitbox
                         ELSE [x |-> 0, y |-> 0, w |-> ImageWidth(s.name),
                               h |-> s.frameheight]]

\* Promise.all(frame_promises).then: the frames are cut, the sprite becomes ready
FramesCut(s) == [s EXCEPT !.ready = TRUE]

---------------------------------------------------------------------------
(* The classes of game.js.  A "world" w is the mutable state a handler works on:  *)
(* w.gs (gamestate), w.heap, w.hi (hiScore), w.music (currentBgMusic), w.rnd (the *)
(* values Math.random() returns to this handler), w.log and w.run (history).      *)

TitleScreen ==
    [Sprite("TitleScreen", 2 * 320) EXCEPT
        !.x = PLAYFIELD_WIDTH \div 2 - (2 * 380) \div 2,
        !.y = PLAYFIELD_HEIGHT \div 2 - (2 * 320) \div 2]

ClickToStart ==
    [Sprite("ClickToStart", 2 * 16) EXCEPT
        !.x = PLAYFIELD_WIDTH \div 2 - (2 * 256) \div 2,
        !.y = PLAYFIELD_HEIGHT \div 2 - (2 * 16) \div 2]

Credits ==
    [Sprite("Credits", 2 * 16) EXCEPT
        !.x = PLAYFIELD_WIDTH \div 2 - (2 * 400) \div 2,
        !.y = PLAYFIELD_HEIGHT \div 2 + (2 * 380) \div 2]

GameOverMessage ==
    [Sprite("GameOver", 2 * 48) EXCEPT
        !.x = PLAYFIELD_WIDTH \div 2 - (2 * 304) \div 2,
        !.y = PLAYFIELD_HEIGHT \div 2 - (2 * 48) \div 2,
        !.sound = TRUE]

NewHiScore ==
    [Sprite("NewHiScore", 2 * 16) EXCEPT
        !.x = PLAYFIELD_WIDTH \div 2 - (2 * 240) \div 2,
        !.y = PLAYFIELD_HEIGHT \div 2 - (2 * 16) \div 2 + 2 * 60]

Player ==
    [setAnimation(Sprite("Player", 2 * 32), "wielding") EXCEPT
        !.x = PLAYFIELD_WIDTH \div 4,
        !.y = PLAYFIELD_HEIGHT \div 2,
        !.speed = 5,                 \* 2.5 px
        !.hasHitbox = TRUE,
        !.hitbox = [x |-> 2 * 6, y |-> 2 * 4, w |-> 2 * 22, h |-> 2 * 21]]

\* new Lamb(); r is Math.random() * (PLAYFIELD_HEIGHT - this.frameheight)
Lamb(r) ==
    [setAnimation(Sprite("Lamb", 2 * 32), "running") EXCEPT
        !.x = PLAYFIELD_WIDTH, !.y = r, !.dead = FALSE]

\* new Broccoli(); r is Math.random() * (PLAYFIELD_HEIGHT - this.frameheight)
Broccoli(r) ==
    [Sprite("Broccoli", 2 * 32) EXCEPT
        !.x = PLAYFIELD_WIDTH, !.y = r,
        !.hasHitbox = TRUE,
        !.hitbox = [x |-> 2 * 10, y |-> 2 * 6, w |-> 2 * 12, h |-> 2 * 16]]

\* new Onion(), given gamestate.player and gamestate.onionSpeed
Onion(player, onionSpeed) ==
    LET s == Sprite("Onion", 2 * 32)
        below == player.y < PLAYFIELD_HEIGHT \div 2
    IN [s EXCEPT
        !.x = player.x,
        !.y = IF below THEN PLAYFIELD_HEIGHT ELSE -(s.frameheight - 2 * 1),
        !.speed = IF below THEN -onionSpeed ELSE onionSpeed,
        !.hasHitbox = TRUE,
        !.hitbox = [x |-> 2 * 6, y |-> 2 * 6, w |-> 2 * 20, h |-> 2 * 21]]

\* Knife.setState
setState(s, newState) ==
    LET s1 == CASE newState = STATE_GROUNDED -> silence(setAnimation(s, "grounded"))
                [] newState = STATE_THROWN ->
                      [silence(setAnimation(s, "thrown")) EXCEPT !.sound = TRUE]
                [] OTHER -> s
    IN [s1 EXCEPT !.state = newState]

\* new Knife(initialState); r is Math.random() * PLAYFIELD_HEIGHT
Knife(initialState, r) ==
    LET s == Sprite("Knife", 2 * 32)
        s1 == [s EXCEPT !.x = PLAYFIELD_WIDTH, !.y = r - s.frameheight,
                        !.hasHitbox = TRUE,
                        !.hitbox = [x |-> 2 * 6, y |-> 2 * 5, w |-> 2 * 9, h |-> 2 * 9]]
    IN [setState(s1, initialState) EXCEPT !.velocity = <<2 * 6, 0>>]

RoadLine(y) ==
    [Sprite("Road Line", 2 * 8) EXCEPT !.x = PLAYFIELD_WIDTH, !.y = y]

Sidewalk ==
    [Sprite("Sidewalk", 2 * 32) EXCEPT !.x = PLAYFIELD_WIDTH, !.y = 0]

---------------------------------------------------------------------------
(* Heap and history helpers *)

EmptyHeap == [i \in {} |-> Sprite("", 0)]

\* The id of the next object created
FreshId(h) == CHOOSE i \in 1..(Cardinality(DOMAIN h) + 1) : i \notin DOMAIN h

HeapPut(h, id, s) == [i \in DOMAIN h \cup {id} |-> IF i = id THEN s ELSE h[i]]

\* One entry of the history: what happened (t), to which objects (a, b), in or
\* between which phases (p, q), on which collection (l).  The first entry names the
\* handler (p) and its key (q); a "phase" entry carries the score (a), the number of
\* background entities (b) and the foreground collection (l) setGamePhase found.
Event(t, a, b, p, q, l) == [t |-> t, a |-> a, b |-> b, p |-> p, q |-> q, l |-> l]

Note(w, t, a, b, p, q, l) == [w EXCEPT !.log = Append(@, Event(t, a, b, p, q, l))]

Bit(v) == IF v THEN 1 ELSE 0

\* array.push(new ...) on gamestate.sprites: the new world; the object gets FreshId
PushSprite(w, s) ==
    LET id == FreshId(w.heap)
    IN Note([w EXCEPT !.heap = HeapPut(@, id, s),
                      !.gs.sprites = Append(@, id)],
            "push", id, 0, s.name, w.gs.phase, << >>)

PushBgSprite(w, s) ==
    LET id == FreshId(w.heap)
    IN Note([w EXCEPT !.heap = HeapPut(@, id, s), !.gs.bgsprites = Append(@, id)],
            "pushbg", id, 0, s.name, w.gs.phase, << >>)

\* The id PushSprite / PushBgSprite has just used
LastPushed(list) == list[Len(list)]

SeqToSet(q) == {q[i] : i \in DOMAIN q}

\* array.splice(i, 1), i counted from 1
Splice(q, i) == [k \in 1..(Len(q) - 1) |-> IF k < i THEN q[k] ELSE q[k + 1]]

---------------------------------------------------------------------------
(* Sound *)

\* setMusic
setMusic(w, name) == [w EXCEPT !.music = name]

\* silenceAllSprites
silenceAllSprites(w) ==
    LET ids == SeqToSet(w.gs.sprites) \cup SeqToSet(w.gs.bgsprites)
    IN [w EXCEPT !.heap = [i \in DOMAIN @ |-> IF i \in ids THEN silence(@[i]) ELSE @[i]]]

---------------------------------------------------------------------------
(* The phase state machine *)

NewRun(hi) == [defeats |-> 0, hiBefore |-> hi, score |-> 0, hiSets |-> 0]

\* setGamePhase, case PHASE_ATTRACT
EnterAttract(w) ==
    [PushSprite(PushSprite(PushSprite(
        Note([setMusic(silenceAllSprites(w), "attractmusic") EXCEPT
                 !.gs.phase = PHASE_ATTRACT, !.gs.sprites = << >>],
             "phase", w.gs.score, Len(w.gs.bgsprites), w.gs.phase, PHASE_ATTRACT,
             w.gs.sprites),
        TitleScreen), ClickToStart), Credits)
     EXCEPT !.gs.frameDelay = 100]

\* gamestate.player = the Player just pushed
SetPlayer(w) == [w EXCEPT !.gs.player = LastPushed(w.gs.sprites)]

\* setGamePhase, case PHASE_RUNNING, without the fresh copy of INITIAL_GAMESTATE
EnterRunningKept(w) ==
    SetPlayer(PushSprite(
        Note([setMusic(w, "runningmusic") EXCEPT
                 !.gs.phase = PHASE_RUNNING, !.gs.sprites = << >>,
                 !.gs.inputs = NoInputs, !.run = NewRun(w.hi)],
             "phase", w.gs.score, Len(w.gs.bgsprites), w.gs.phase, PHASE_RUNNING,
             w.gs.sprites),
        Player))

\* setGamePhase, case PHASE_RUNNING
EnterRunning(w) ==
    SetPlayer(PushSprite(
        Note([setMusic(w, "runningmusic") EXCEPT
                 !.gs = [INITIAL_GAMESTATE EXCEPT !.phase = PHASE_RUNNING],
                 !.run = NewRun(w.hi)],
             "phase", w.gs.score, Len(w.gs.bgsprites), w.gs.phase, PHASE_RUNNING,
             w.gs.sprites),
        Player))

\* setGamePhase, lines 727-733: the high score
UpdateHiScore(w) ==
    IF w.gs.score > w.hi
    THEN PushSprite(Note([w EXCEPT !.hi = w.gs.score, !.run.hiSets = @ + 1],
                         "hiscore", w.gs.score, w.hi, "", "", << >>),
                    NewHiScore)
    ELSE w

\* setGamePhase, case PHASE_GAME_OVER
EnterGameOver(w) ==
    UpdateHiScore(
        [PushSprite(Note([setMusic(silenceAllSprites(w), "") EXCEPT
                             !.gs.phase = PHASE_GAME_OVER],
                         "phase", w.gs.score, Len(w.gs.bgsprites), w.gs.phase,
                         PHASE_GAME_OVER, w.gs.sprites),
                    GameOverMessage)
         EXCEPT !.gs.frameDelay = 100,
                !.run.defeats = @ + 1,
                !.run.hiBefore = IF w.run.defeats = 0 THEN w.hi ELSE @,
                !.run.score = IF w.run.defeats = 0 THEN w.gs.score ELSE @])

setGamePhase(w, newPhase) ==
    CASE newPhase = PHASE_ATTRACT -> EnterAttract(w)
      [] newPhase = PHASE_RUNNING -> EnterRunning(w)
      [] newPhase = PHASE_GAME_OVER -> EnterGameOver(w)
      [] OTHER -> w

\* startGameAndSound
startGameAndSound(w) ==
    IF w.gs.phase \in {PHASE_ATTRACT, PHASE_GAME_OVER}
    THEN setGamePhase(w, IF w.gs.phase = PHASE_ATTRACT THEN PHASE_RUNNING
                         ELSE PHASE_ATTRACT)
    ELSE w

---------------------------------------------------------------------------
(* move() and interact() of each class *)

\* Player.spendKnife, lines 344-348: a knife is there to spend
SpendOne(w, id) ==
    IF w.gs.knives = 1
    THEN Note([w EXCEPT !.gs.knives = 0, !.heap[id] = setAnimation(@, "walking")],
              "spend", id, 0, "", "", << >>)
    ELSE Note([w EXCEPT !.gs.knives = @ - 1], "spend", id, 0, "", "", << >>)

\* Player.spendKnife without lines 338-343: a knife is spent though none is left
spendKnifeUnchecked(w, id, soundOnFail) == [w |-> SpendOne(w, id), spent |-> TRUE]

\* Player.spendKnife: the world afterwards and the value returned
spendKnife(w, id, soundOnFail) ==
    IF w.gs.knives = 0
    THEN [w |-> IF soundOnFail THEN [w EXCEPT !.heap[id].sound = TRUE] ELSE w,
          spent |-> FALSE]
    ELSE [w |-> SpendOne(w, id), spent |-> TRUE]

\* Player.die
PlayerDie(w, id) ==
    setGamePhase(Note([w EXCEPT !.heap[id] = setAnimation(@, "dead")],
                      "die", id, 0, w.gs.phase, "", << >>),
                 PHASE_GAME_OVER)

\* Lamb.die
LambDie(w, id) ==
    Note([w EXCEPT !.heap[id] = [setAnimation(@, "dead") EXCEPT
                                    !.dead = TRUE, !.sound = TRUE]],
         "killed", id, 0, "", "", << >>)

\* gamestate.score -= n
SubScore(w, n) ==
    Note([w EXCEPT !.gs.score = @ - n], "score", n, w.gs.score, w.gs.phase, "", << >>)

\* gamestate.score += n
AddScore(w, n) ==
    Note([w EXCEPT !.gs.score = @ + n], "score", n, w.gs.score, w.gs.phase, "", << >>)

\* Player.move, lines 286-289: the thrown Knife, placed at the Player
ThrowKnife(w, id) ==
    Note(PushSprite(w, [Knife(STATE_THROWN, 0) EXCEPT
                           !.x = w.heap[id].x + w.heap[id].hitbox.w,
                           !.y = w.heap[id].y]),
         "throw", FreshId(w.heap), id, "", "", << >>)

\* Player.move, line 285: if (this.spendKnife(true)) { ... }
ThrowIfSpent(sp, id) == IF sp.spent THEN ThrowKnife(sp.w, id) ELSE sp.w

\* Player.move, lines 282-292: the fire branch
PlayerFire(w, id) ==
    IF w.gs.inputs.fire /\ w.gs.knifeThrowCooldown = 0
    THEN ThrowIfSpent(
            spendKnife([w EXCEPT !.gs.knifeThrowCooldown = KNIFE_COOLDOWN_FRAMES],
                       id, TRUE),
            id)
    ELSE w

\* Player.move, lines 270-281: the directional inputs
PlayerWalk(s, in) ==
    [s EXCEPT !.x = (IF in.left THEN @ - s.speed ELSE @)
                    + (IF in.right THEN s.speed ELSE 0),
              !.y = (IF in.up THEN @ - s.speed ELSE @)
                    + (IF in.down THEN s.speed ELSE 0)]

\* Player.move, line 293
PlayerClamp(w, id) == [w EXCEPT !.heap[id] = ensureFullyOnScreen(@)]

\* Player.move
PlayerMove(w, id) ==
    PlayerClamp(PlayerFire([w EXCEPT !.heap[id] = PlayerWalk(@, w.gs.inputs)], id), id)

\* Lamb.move without lines 371-372: a dead Lamb stays where it died
LambMoveAlive(w, id) ==
    IF w.heap[id].dead THEN w ELSE [w EXCEPT !.heap[id].x = @ - w.gs.lambSpeed]

\* Lamb.move
LambMove(w, id) ==
    [w EXCEPT !.heap[id].x = IF w.heap[id].dead THEN @ - w.gs.roadSpeed
                             ELSE @ - w.gs.lambSpeed]

\* Broccoli.move, RoadLine.move, Sidewalk.move
ScrollMove(w, id) == [w EXCEPT !.heap[id].x = @ - w.gs.roadSpeed]

\* Onion.move
OnionMove(w, id) == [w EXCEPT !.heap[id].y = @ + w.heap[id].speed]

\* Knife.move
KnifeMove(w, id) ==
    CASE w.heap[id].state = STATE_GROUNDED -> [w EXCEPT !.heap[id].x = @ - w.gs.roadSpeed]
      [] w.heap[id].state = STATE_THROWN ->
            [w EXCEPT !.heap[id].x = @ + w.heap[id].velocity[1],
                      !.heap[id].y = @ + w.heap[id].velocity[2]]
      [] OTHER -> w

\* s.move(), dispatched on the class of s
SpriteMove(w, id) ==
    CASE w.heap[id].name = "Player" -> PlayerMove(w, id)
      [] w.heap[id].name = "Lamb" -> LambMove(w, id)
      [] w.heap[id].name \in {"Broccoli", "Road Line", "Sidewalk"} -> ScrollMove(w, id)
      [] w.heap[id].name = "Onion" -> OnionMove(w, id)
      [] w.heap[id].name = "Knife" -> KnifeMove(w, id)
      [] OTHER -> w

\* Player.interact, lines 309-310: the Lamb is killed, if a knife was spent
\* Player.interact, lines 309-310, with the score of a pickup
KillIfSpentFor100(sp, other) ==
    IF sp.spent THEN AddScore(LambDie(sp.w, other), 100) ELSE sp.w

KillIfSpent(sp, other) ==
    IF sp.spent THEN AddScore(LambDie(sp.w, other), 1000) ELSE sp.w

\* History: what the pickup that took world w to v did: the Player's animation and
\* whether it was set, knives and score before and after, where the Knife is
Picked(w, v, id, other) ==
    Note(v, "picked", id, other, v.heap[id].animation,
         IF v.heap[id] = w.heap[id] THEN "" ELSE "switched",
         << w.gs.knives, v.gs.knives, w.gs.score, v.gs.score, v.heap[other].x >>)

\* Player.interact, lines 317-321: the knife and the score of a pickup
TakeKnife(w, id, other) ==
    AddScore(Note([w EXCEPT !.gs.knives = @ + 1,
                            !.heap[id] = IF w.gs.knives + 1 = 1
                                         THEN setAnimation(@, "wielding") ELSE @],
                  "pickup", id, other, "", "", << >>),
             100)

\* Player.interact, lines 317-323, without `other.x = -100`
PickUpInPlace(w, id, other) == Picked(w, TakeKnife(w, id, other), id, other)

\* Player.interact, lines 317-323: a grounded Knife is picked up
PickUp(w, id, other) ==
    Picked(w, [TakeKnife(w, id, other) EXCEPT !.heap[other].x = 2 * (-100)], id, other)

\* Player.interact with `case "Broccoli":` left out
PlayerReactionNoBroccoli(w, id, other) ==
    LET o == w.heap[other]
    IN IF ~Truthy(intersects(w.heap[id], o)) THEN "none"
       ELSE CASE o.name = "Onion" -> "die"
              [] o.name = "Lamb" -> IF o.dead THEN "none" ELSE "kill"
              [] o.name = "Knife" -> IF o.state = STATE_GROUNDED THEN "pickup" ELSE "die"
              [] OTHER -> "none"

\* Player.interact: what an overlap with `other` leads to
PlayerReaction(w, id, other) ==
    LET o == w.heap[other]
    IN IF ~Truthy(intersects(w.heap[id], o)) THEN "none"
       ELSE CASE o.name \in {"Broccoli", "Onion"} -> "die"
              [] o.name = "Lamb" -> IF o.dead THEN "none" ELSE "kill"
              [] o.name = "Knife" -> IF o.state = STATE_GROUNDED THEN "pickup" ELSE "die"
              [] OTHER -> "none"

\* Player.interact
PlayerInteract(w, id, other) ==
    CASE PlayerReaction(w, id, other) = "die" -> PlayerDie(w, id)
      [] PlayerReaction(w, id, other) = "kill" ->
            KillIfSpent(spendKnife(w, id, FALSE), other)
      [] PlayerReaction(w, id, other) = "pickup" -> PickUp(w, id, other)
      [] OTHER -> w

\* History: what the hit that took world w to v did to the velocity of the Knife
Deflected(w, v, id, other) ==
    Note(v, "deflected", id, other, "", "",
         << w.heap[id].velocity[1], v.heap[id].velocity[1], v.heap[id].velocity[2] >>)

\* Knife.interact, lines 493-497: the Lamb is killed and the Knife deflected
Deflect(w, id, other) ==
    Deflected(w,
              [AddScore(LambDie(w, other), 1000) EXCEPT
                  !.heap[id].velocity = <<-w.heap[id].velocity[1], w.rnd.deflect>>],
              id, other)

\* Knife.interact with `case "Knife":` next to `case "Broccoli":` and `case "Onion":`
KnifeInteractOnKnives(w, id, other) ==
    LET o == w.heap[other]
        hit == Truthy(intersects(w.heap[id], o))
    IN IF w.heap[id].state # STATE_THROWN THEN w
       ELSE CASE o.name \in {"Broccoli", "Onion", "Knife"} ->
                    IF hit THEN [w EXCEPT !.heap[id] = setState(@, STATE_GROUNDED)] ELSE w
              [] o.name = "Lamb" ->
                    IF ~hit \/ o.dead THEN w ELSE Deflect(w, id, other)
              [] OTHER -> w

\* Knife.interact without `if (other.dead) break;`
KnifeInteractOnDead(w, id, other) ==
    LET o == w.heap[other]
        hit == Truthy(intersects(w.heap[id], o))
    IN IF w.heap[id].state # STATE_THROWN THEN w
       ELSE CASE o.name \in {"Broccoli", "Onion"} ->
                    IF hit THEN [w EXCEPT !.heap[id] = setState(@, STATE_GROUNDED)] ELSE w
              [] o.name = "Lamb" ->
                    IF ~hit THEN w ELSE Deflect(w, id, other)
              [] OTHER -> w

\* Knife.interact with setState(Knife.STATE_THROWN) for a grounded Knife on an obstacle
KnifeInteractRethrown(w, id, other) ==
    LET o == w.heap[other]
        hit == Truthy(intersects(w.heap[id], o))
    IN CASE o.name \in {"Broccoli", "Onion"} ->
                IF ~hit THEN w
                ELSE IF w.heap[id].state = STATE_THROWN
                THEN [w EXCEPT !.heap[id] = setState(@, STATE_GROUNDED)]
                ELSE [w EXCEPT !.heap[id] = setState(@, STATE_THROWN)]
         [] o.name = "Lamb" ->
                IF w.heap[id].state # STATE_THROWN \/ ~hit \/ o.dead THEN w
                ELSE Deflect(w, id, other)
         [] OTHER -> w

\* Knife.interact
KnifeInteract(w, id, other) ==
    LET o == w.heap[other]
        hit == Truthy(intersects(w.heap[id], o))
    IN IF w.heap[id].state # STATE_THROWN THEN w
       ELSE CASE o.name \in {"Broccoli", "Onion"} ->
                    IF hit THEN [w EXCEPT !.heap[id] = setState(@, STATE_GROUNDED)] ELSE w
              [] o.name = "Lamb" ->
                    IF ~hit \/ o.dead THEN w ELSE Deflect(w, id, other)
              [] OTHER -> w

\* s1.interact(s2), dispatched on the class of s1
Dispatch(w, s1, s2) ==
    CASE w.heap[s1].name = "Player" -> PlayerInteract(w, s1, s2)
      [] w.heap[s1].name = "Knife" -> KnifeInteract(w, s1, s2)
      [] OTHER -> w

\* History: has the call that took world w to v changed anything but the history?
Effect(w, v) ==
    IF /\ v.gs = w.gs
       /\ DOMAIN v.heap = DOMAIN w.heap
       /\ \A i \in DOMAIN w.heap : v.heap[i] = w.heap[i]
       /\ v.hi = w.hi
       /\ v.music = w.music
    THEN "" ELSE "changed"

\* History: the entry at `at` gets the effect of its call
Mark(w, v, at) == [v EXCEPT !.log[at].q = Effect(w, v)]

\* History: who calls interact on whom (name and motion state of each), what
\* s1.intersects(s2) is when the call is made, and whether s2 is dead
Pair(w, s1, s2) ==
    << w.heap[s1].name, w.heap[s1].state, w.heap[s2].name, w.heap[s2].state,
       intersects(w.heap[s1], w.heap[s2]), IF w.heap[s2].dead THEN "dead" ELSE "" >>

SpriteInteract(w, s1, s2) ==
    Mark(w, Dispatch(Note(w, "interact", s1, s2, w.gs.phase, "", Pair(w, s1, s2)), s1, s2),
         Len(w.log) + 1)

\* s.finished(), with the side effect Knife.finished has
SpriteFinished(w, id) ==
    [w |-> IF finished(w.heap[id]) /\ w.heap[id].name = "Knife"
           THEN [w EXCEPT !.heap[id] = silence(@)] ELSE w,
     f |-> finished(w.heap[id])]

---------------------------------------------------------------------------
(* The two passes, the renderer and the game loop *)

\* The collection a pass works on: gamestate.sprites (fg) or gamestate.bgsprites
Collection(w, fg) == IF fg THEN w.gs.sprites ELSE w.gs.bgsprites

\* sprites.splice(i, 1), i counted from 1
RemoveAt(w, fg, i, pass) ==
    Note(IF fg THEN [w EXCEPT !.gs.sprites = Splice(@, i)]
         ELSE [w EXCEPT !.gs.bgsprites = Splice(@, i)],
         "remove", Collection(w, fg)[i], i, pass, w.heap[Collection(w, fg)[i]].name, << >>)

\* move, lines 935-938: if (s.finished()) sprites.splice(i, 1)
MoveRemove(fin, fg, id, i) ==
    IF fin.f THEN RemoveAt(Note(fin.w, "move", id, 1, "", "", << >>), fg, i, "move")
    ELSE Note(fin.w, "move", id, 0, "", "", << >>)

\* move, lines 933-938: the body of the loop for index i (counted from 1)
MoveBody(w, fg, id, i) == MoveRemove(SpriteFinished(SpriteMove(w, id), id), fg, id, i)

RECURSIVE MoveLoop(_, _, _)
\* move, line 932: for (var i = sprites.length - 1; i >= 0; i--)
MoveLoop(w, fg, i) ==
    IF i < 1 THEN w
    ELSE MoveLoop(MoveBody(w, fg, Collection(w, fg)[i], i), fg, i - 1)

PassEnd(w, fg, pass) == Note(w, "passed", Bit(fg), 0, pass, "", Collection(w, fg))

RECURSIVE MoveLoopUp(_, _, _)
\* move, line 932, as for (var i = 0; i < sprites.length; i++)
MoveLoopUp(w, fg, i) ==
    IF i > Len(Collection(w, fg)) THEN w
    ELSE MoveLoopUp(MoveBody(w, fg, Collection(w, fg)[i], i), fg, i + 1)

\* move(sprites), walking the collection upwards
moveUpwards(w, fg) ==
    PassEnd(MoveLoopUp(Note(w, "pass", Bit(fg), 0, "move", "", Collection(w, fg)),
                       fg, 1),
            fg, "move")

\* move(sprites)
move(w, fg) ==
    PassEnd(MoveLoop(Note(w, "pass", Bit(fg), 0, "move", "", Collection(w, fg)),
                     fg, Len(Collection(w, fg))),
            fg, "move")

RECURSIVE Scan(_, _, _)
\* interact, lines 946-948: for (var s2 of sprites) s1.interact(s2), on the live array
Scan(w, s1, j) ==
    IF j > Len(w.gs.sprites) THEN w
    ELSE Scan(SpriteInteract(w, s1, w.gs.sprites[j]), s1, j + 1)

\* interact, lines 949-952, with the index of the last element for i
InteractRemoveLast(fin, s1, i) ==
    IF fin.f
    THEN RemoveAt(Note(fin.w, "scanned", s1, 1, "", "", fin.w.gs.sprites), TRUE,
                  Len(fin.w.gs.sprites), "interact")
    ELSE Note(fin.w, "scanned", s1, 0, "", "", fin.w.gs.sprites)

\* interact, lines 949-952: if (s1.finished()) sprites.splice(i, 1)
InteractRemove(fin, s1, i) ==
    IF fin.f
    THEN RemoveAt(Note(fin.w, "scanned", s1, 1, "", "", fin.w.gs.sprites), TRUE, i,
                  "interact")
    ELSE Note(fin.w, "scanned", s1, 0, "", "", fin.w.gs.sprites)

\* interact, lines 945-952: the body of the loop for index i (counted from 1)
InteractBody(w, s1, i) ==
    InteractRemove(
        SpriteFinished(Scan(Note(w, "scan", s1, i, "", "", w.gs.sprites), s1, 1), s1),
        s1, i)

RECURSIVE InteractLoop(_, _)
\* interact, line 944: for (var i = sprites.length - 1; i >= 0; i--)
InteractLoop(w, i) ==
    IF i < 1 THEN w
    ELSE InteractLoop(InteractBody(w, w.gs.sprites[i], i), i - 1)

\* interact(sprites)
interact(w) ==
    PassEnd(InteractLoop(Note(w, "pass", 1, 0, "interact", "", w.gs.sprites),
                         Len(w.gs.sprites)),
            TRUE, "interact")

RECURSIVE SortedInsert(_, _, _)
\* q, sorted by y, with id put after every element whose y is not greater
SortedInsert(h, q, id) ==
    IF q = << >> THEN <<id>>
    ELSE IF h[q[Len(q)]].y - h[id].y <= 0 THEN Append(q, id)
    ELSE Append(SortedInsert(h, SubSeq(q, 1, Len(q) - 1), id), q[Len(q)])

RECURSIVE SortByY(_, _)
\* gamestate.sprites.sort((a, b) => a.y - b.y): a stable sort
SortByY(h, q) ==
    IF q = << >> THEN q
    ELSE SortedInsert(h, SortByY(h, SubSeq(q, 1, Len(q) - 1)), q[Len(q)])

\* prepareRender
prepareRender(w) == [w EXCEPT !.gs.sprites = SortByY(w.heap, @)]

\* render(ctx, sprites): every sprite of the collection gets one nextFrame()
render(w, fg) ==
    [w EXCEPT !.heap = [i \in DOMAIN @ |->
                           IF i \in SeqToSet(Collection(w, fg))
                           THEN nextFrame(@[i]).sprite ELSE @[i]]]

\* A spawn countdown `if (gamestate.next-- == 0)`: does it fire, and its next value
Fires(next) == next = 0
Countdown(next, frequency) == IF next = 0 THEN frequency ELSE next - 1

\* gamestate.lamb = the Lamb just pushed
SetLamb(w) == [w EXCEPT !.gs.lamb = LastPushed(w.gs.sprites)]

\* gameloop, lines 874-878
SpawnLamb(w) ==
    IF w.gs.lamb = Null \/ finished(w.heap[w.gs.lamb])
    THEN SetLamb(PushSprite(w, Lamb(w.rnd.lamb)))
    ELSE w

\* gameloop, lines 880-884
SpawnBroccoli(w) ==
    IF Fires(w.gs.nextBroccoli)
    THEN PushSprite([w EXCEPT !.gs.nextBroccoli = Countdown(@, w.gs.broccoliFrequency)],
                    Broccoli(w.rnd.broccoli))
    ELSE [w EXCEPT !.gs.nextBroccoli = Countdown(@, w.gs.broccoliFrequency)]

RECURSIVE PushRoadLines(_, _)
\* ROAD_LINE_YS.forEach(y => gamestate.bgsprites.push(new RoadLine(y))), from the k-th on
PushRoadLines(w, k) ==
    IF k > Len(ROAD_LINE_YS) THEN w
    ELSE PushRoadLines(PushBgSprite(w, RoadLine(ROAD_LINE_YS[k])), k + 1)

\* gameloop, lines 886-890
SpawnRoadLines(w) ==
    IF Fires(w.gs.nextRoadLine)
    THEN PushRoadLines([w EXCEPT !.gs.nextRoadLine = Countdown(@, w.gs.roadLineFrequency)],
                       1)
    ELSE [w EXCEPT !.gs.nextRoadLine = Countdown(@, w.gs.roadLineFrequency)]

\* gameloop, lines 892-896
SpawnSidewalk(w) ==
    IF Fires(w.gs.nextSidewalk)
    THEN PushBgSprite([w EXCEPT !.gs.nextSidewalk = Countdown(@, w.gs.sidewalkFrequency)],
                      Sidewalk)
    ELSE [w EXCEPT !.gs.nextSidewalk = Countdown(@, w.gs.sidewalkFrequency)]

\* gameloop, lines 898-904, without `gamestate.score > gamestate.minOnionScore &&`
SpawnOnionUngated(w) ==
    IF Fires(w.gs.nextOnion)
    THEN [PushSprite(w, Onion(w.heap[w.gs.player], w.gs.onionSpeed))
          EXCEPT !.gs.nextOnion = w.gs.onionFrequency]
    ELSE [w EXCEPT !.gs.nextOnion = @ - 1]

\* gameloop, lines 898-904
SpawnOnion(w) ==
    IF w.gs.score > w.gs.minOnionScore
    THEN IF Fires(w.gs.nextOnion)
         THEN [PushSprite(w, Onion(w.heap[w.gs.player], w.gs.onionSpeed))
               EXCEPT !.gs.nextOnion = w.gs.onionFrequency]
         ELSE [w EXCEPT !.gs.nextOnion = @ - 1]
    ELSE w

\* gameloop, lines 906-910
SpawnKnife(w) ==
    IF Fires(w.gs.nextKnife)
    THEN PushSprite([w EXCEPT !.gs.nextKnife = Countdown(@, w.gs.knifeFrequency)],
                    Knife(STATE_GROUNDED, w.rnd.knife))
    ELSE [w EXCEPT !.gs.nextKnife = Countdown(@, w.gs.knifeFrequency)]

\* gameloop, lines 912-913
CoolDown(w) ==
    [w EXCEPT !.gs.knifeThrowCooldown = IF @ - 1 > 0 THEN @ - 1 ELSE 0]

\* gameloop, lines 874-913: the spawn checks of a running tick
SpawnChecks(w) ==
    CoolDown(SpawnKnife(SpawnOnion(SpawnSidewalk(SpawnRoadLines(SpawnBroccoli(
        SpawnLamb(w)))))))

\* gameloop, lines 868-871
GameOverMusic(w) ==
    [(IF w.gs.gameOverMusicDelay = 0 THEN setMusic(w, "gameovermusic") ELSE w)
     EXCEPT !.gs.gameOverMusicDelay = @ - 1]

\* The pairs of different foreground entities whose hit-rectangles overlap
Touching(w) ==
    LET q == w.gs.sprites
        n == Len(q)
        pairs == [k \in 1..(n * n) |-> << q[((k - 1) \div n) + 1], q[((k - 1) % n) + 1] >>]
    IN SelectSeq(pairs, LAMBDA pr : /\ pr[1] # pr[2]
                                   /\ intersects(w.heap[pr[1]], w.heap[pr[2]]) = "true")

\* History: the movement passes are over; the score (a), the knives (b) and the
\* overlapping pairs (l) the interaction pass is about to find
Moved(w) == Note(w, "moved", w.gs.score, w.gs.knives, "", "", Touching(w))

\* gameloop, lines 865-919: what the phase asks of this tick
PhaseWork(w) ==
    CASE w.gs.phase = PHASE_GAME_OVER -> GameOverMusic(w)
      [] w.gs.phase = PHASE_RUNNING ->
            interact(Moved(move(move(SpawnChecks(w), FALSE), TRUE)))
      [] OTHER -> w

\* gameloop, lines 865-927: one tick, once the readiness barrier is passed
Tick(w) == render(render(prepareRender(PhaseWork(w)), FALSE), TRUE)

\* for (var s of gamestate.sprites) ready &= s.ready
AllReady(w) == \A i \in DOMAIN w.gs.sprites : w.heap[w.gs.sprites[i]].ready

\* gameloop without lines 853-863: no wait for the sprites
gameloopUnready(w) ==
    Tick(Note([w EXCEPT !.ready = TRUE], "tick", 0, 0, w.gs.phase, "", << >>))

\* gameloop
gameloop(w) ==
    IF ~w.ready /\ ~AllReady(w)
    THEN Note(w, "poll", 0, 0, w.gs.phase, "", << >>)
    ELSE Tick(Note([w EXCEPT !.ready = TRUE], "tick", 0, 0, w.gs.phase, "", << >>))

---------------------------------------------------------------------------
(* The handlers as actions *)

\* The values Math.random() may give a handler, on the half-pixel grid:
\* lamb, broccoli in [0, PLAYFIELD_HEIGHT - frameheight), knife in [0, PLAYFIELD_HEIGHT),
\* deflect (Math.random() * 4 - 2) in [-2 px, 2 px)
Randoms ==
    { [lamb |-> 2 * 250, broccoli |-> 2 * 100, knife |-> 2 * 282, deflect |-> 0],
      [lamb |-> 2 * 40, broccoli |-> 2 * 250, knife |-> 2 * 60, deflect |-> -4] }

NoRandom == [lamb |-> 0, broccoli |-> 0, knife |-> 0, deflect |-> 0]

\* What localStorage may hold for the high score when the page loads
StoredHiScores == {0, 1000}

\* The keys followed: one direction, fire (which is a start input too) and Enter
Keys == {"Left", "Space", "Enter"}

\* The world a handler named `name` starts with
World(name, key, r) ==
    [ gs |-> gamestate, heap |-> heap, hi |-> hiScore, music |-> currentBgMusic,
      ready |-> ready, rnd |-> r, run |-> run,
      log |-> << Event("handler", 0, 0, name, key, << >>) >> ]

\* The objects still reachable from gamestate
Reachable(w) ==
    (SeqToSet(w.gs.sprites) \cup SeqToSet(w.gs.bgsprites)
        \cup {w.gs.player, w.gs.lamb}) \ {Null}

\* The state a handler leaves
Commit(w) ==
    /\ gamestate' = w.gs
    /\ heap' = [i \in Reachable(w) |-> w.heap[i]]
    /\ hiScore' = w.hi
    /\ currentBgMusic' = w.music
    /\ ready' = w.ready
    /\ log' = w.log
    /\ run' = w.run

\* Has the handler left everything as it was?
Idle(w) ==
    /\ w.gs = gamestate
    /\ w.heap = heap
    /\ w.hi = hiScore
    /\ w.music = currentBgMusic
    /\ w.ready = ready

\* What a key or click listener leaves: one of the inputs followed is used up.  A
\* listener that changes nothing leaves no trace.
Input(w) ==
    IF Idle(w)
    THEN UNCHANGED vars
    ELSE /\ Commit(w)
         /\ budget' = [budget EXCEPT !.inputs = @ - 1, !.events = @ - 1]
         /\ UNCHANGED started

\* What the load of an asset leaves: one of the loads followed is used up
Load(w) ==
    /\ Commit(w)
    /\ budget' = [budget EXCEPT !.loads = @ - 1, !.events = @ - 1]
    /\ UNCHANGED started

\* The "click" listener of the canvas
Click ==
    /\ budget.inputs > 0 /\ budget.events > 0
    /\ Input(startGameAndSound(World("click", "", NoRandom)))

\* The "keydown" listener, lines 811-823: the key sets its input
PressKey(w, kc) ==
    CASE kc = "Right" -> [w EXCEPT !.gs.inputs.right = TRUE]
      [] kc = "Left" -> [w EXCEPT !.gs.inputs.left = TRUE]
      [] kc = "Down" -> [w EXCEPT !.gs.inputs.down = TRUE]
      [] kc = "Up" -> [w EXCEPT !.gs.inputs.up = TRUE]
      [] kc = "Space" -> [w EXCEPT !.gs.inputs.fire = TRUE]
      [] OTHER -> w

\* The "keyup" listener: the key clears its input
ReleaseKey(w, kc) ==
    CASE kc = "Right" -> [w EXCEPT !.gs.inputs.right = FALSE]
      [] kc = "Left" -> [w EXCEPT !.gs.inputs.left = FALSE]
      [] kc = "Down" -> [w EXCEPT !.gs.inputs.down = FALSE]
      [] kc = "Up" -> [w EXCEPT !.gs.inputs.up = FALSE]
      [] kc = "Space" -> [w EXCEPT !.gs.inputs.fire = FALSE]
      [] OTHER -> w

\* The "keydown" listener, lines 808-810: Space and Enter are start inputs
StartKey(w, kc) == IF kc \in {"Space", "Enter"} THEN startGameAndSound(w) ELSE w

\* The "keydown" listener
KeyDown ==
    \E kc \in Keys :
        /\ budget.inputs > 0 /\ budget.events > 0
        /\ Input(PressKey(StartKey(World("keydown", kc, NoRandom), kc), kc))

\* The "keyup" listener
KeyUp ==
    \E kc \in Keys \ {"Enter"} :
        /\ budget.inputs > 0 /\ budget.events > 0
        /\ Input(ReleaseKey(World("keyup", kc, NoRandom), kc))

\* setupSamples().then(...): the sounds are decoded; the attract phase is entered and
\* gameloop() runs for the first time
SoundsLoaded ==
    /\ ~started
    /\ started' = TRUE
    /\ Commit(gameloop(setGamePhase(World("sounds", "", NoRandom), PHASE_ATTRACT)))
    /\ UNCHANGED budget

\* image.onload of one sprite
ImageLoaded ==
    \E id \in DOMAIN heap :
        /\ budget.loads > 0 /\ budget.events > 0
        /\ ~heap[id].loaded
        /\ Load([World("onload", "", NoRandom) EXCEPT !.heap[id] = ImageOnload(@)])

\* Promise.all(frame_promises).then of one sprite
FramesReady ==
    \E id \in DOMAIN heap :
        /\ budget.loads > 0 /\ budget.events > 0
        /\ heap[id].loaded /\ ~heap[id].ready
        /\ Load([World("frames", "", NoRandom) EXCEPT !.heap[id] = FramesCut(@)])

\* What a gameloop() call leaves: a tick uses up one of the ticks followed
Scheduled(w) ==
    /\ w.ready => budget.ticks > 0
    /\ Commit(w)
    /\ budget' = IF w.ready THEN [budget EXCEPT !.ticks = @ - 1] ELSE budget

\* A gameloop() call made by setTimeout
GameLoop ==
    /\ started
    /\ ready \/ AllReady(World("gameloop", "", NoRandom)) => budget.ticks > 0
    /\ \E r \in Randoms : Scheduled(gameloop(World("gameloop", "", r)))
    /\ UNCHANGED started

\* The state when the page has loaded and game() has run
Init ==
    /\ gamestate = INITIAL_GAMESTATE
    /\ heap = EmptyHeap
    /\ hiScore \in StoredHiScores
    /\ currentBgMusic = ""
    /\ ready = FALSE
    /\ started = FALSE
    /\ log = << >>
    /\ run = NewRun(hiScore)
    /\ budget = [ticks |-> MaxTicks, inputs |-> MaxInputs, loads |-> MaxLoads,
                 events |-> MaxInputs + MaxLoads]

Next ==
    \/ Click
    \/ KeyDown
    \/ KeyUp
    \/ SoundsLoaded
    \/ ImageLoaded
    \/ FramesReady
    \/ GameLoop

Spec == Init /\ [][Next]_vars

\* The same program followed up to the end of the wait for the sprites
InitLive ==
    /\ gamestate = INITIAL_GAMESTATE
    /\ heap = EmptyHeap
    /\ hiScore \in StoredHiScores
    /\ currentBgMusic = ""
    /\ ready = FALSE
    /\ started = FALSE
    /\ log = << >>
    /\ run = NewRun(hiScore)
    /\ budget = [ticks |-> MaxLiveTicks, inputs |-> MaxLiveInputs, loads |-> MaxLiveLoads,
                 events |-> MaxLiveInputs + MaxLiveLoads]

\* ENABLED <<GameLoop>>_vars, written out: a gameloop() call is due and it is a tick
\* or leaves something changed
LoopEnabled ==
    /\ started
    /\ ready \/ AllReady(World("gameloop", "", NoRandom)) => budget.ticks > 0
    /\ \E r \in Randoms :
           \/ gameloop(World("gameloop", "", r)).ready
           \/ ~Idle(gameloop(World("gameloop", "", r)))
           \/ gameloop(World("gameloop", "", r)).log # log

\* <<GameLoop>>_vars, written out: the handler of the step is gameloop
LoopTaken == Len(log') >= 1 /\ log'[1].p = "gameloop"

\* setTimeout(gameloop, ...) runs gameloop() again: WF_vars(GameLoop).  Nothing
\* makes an image load.
SpecLive ==
    /\ InitLive /\ [][Next]_vars
    /\ ([]<>~LoopEnabled \/ []<><<LoopTaken>>_vars)

---------------------------------------------------------------------------
(* Behaviours that start inside a run.  A run takes hundreds of ticks to bring two *)
(* entities together, so the states below are drawn instead of being replayed: the *)
(* game is running, the tick just over left the foreground collection sorted by y, *)
(* nothing overlaps the Player yet, every entity is on the grid its own move()     *)
(* keeps it on, and the next tick or the one after brings the entities drawn next  *)
(* to the Player into contact with it.                                             *)

\* A sprite whose sheet has loaded and whose frames are cut, some ticks into a step
Loaded(s, step) == [FramesCut(ImageOnload(s)) EXCEPT !.animFrameStep = step]

\* Where the Player stands: the start position, or the left edge of the playfield
PlayerSpots == { [x |-> PLAYFIELD_WIDTH \div 4, y |-> PLAYFIELD_HEIGHT \div 2],
                 [x |-> 0, y |-> PLAYFIELD_HEIGHT \div 2] }

\* The Player of a run in which `knives` knives are left
PlayerAt(spot, knives) ==
    [Loaded(setAnimation(Player, IF knives = 0 THEN "walking" ELSE "wielding"), 3)
     EXCEPT !.x = spot.x, !.y = spot.y]

LambKinds == {"far", "near", "nearUnloaded", "nearDead", "leavingUnloaded"}

\* gamestate.lamb: far to the right, one step of its own from the Player's rectangle
\* (its sheet loaded or not), killed and one step of the road from it, or one step
\* from the left edge of the playfield with its sheet still loading
LambOf(kind, spot) ==
    CASE kind = "far" ->
            [Loaded(Lamb(2 * 40), 2) EXCEPT !.x = PLAYFIELD_WIDTH - 3 * 100]
      [] kind = "near" ->
            [Loaded(Lamb(spot.y), 2) EXCEPT !.x = spot.x + 57]
      [] kind = "nearUnloaded" ->
            [Lamb(spot.y) EXCEPT !.x = spot.x + 57]
      [] kind = "nearDead" ->
            [Loaded(LambDie(
                [heap |-> [i \in {1} |-> Lamb(spot.y)], log |-> << >>], 1).heap[1], 2)
             EXCEPT !.x = spot.x + 60, !.sound = FALSE]
      [] kind = "leavingUnloaded" ->
            [Lamb(2 * 40) EXCEPT !.x = 1]

ExtraKinds == <<"BroccoliNear", "OnionNear", "KnifeNear", "KnifeBack", "BroccoliOut">>

\* An entity next to the Player: a Broccoli (on the Player after one tick at the left
\* edge; at the start position clear of the Player and in the way of the Knife it
\* throws), an Onion (coming up under the Player, or, at the start position with fire
\* held, coming up in the way of the Knife it throws), a grounded Knife (level with the
\* Player at the start position, and so after it in the collection; a pixel higher, and
\* so before it, at the left edge) or a deflected thrown Knife that the next tick
\* moves onto the Player's rectangle, or a Broccoli that the next tick moves off the
\* playfield
Extra(kind, spot, hold) ==
    CASE kind = "BroccoliNear" ->
            [Loaded(Broccoli(spot.y), 7) EXCEPT !.x = spot.x + (IF spot.x = 0 THEN 40 ELSE 52)]
      [] kind = "OnionNear" ->
            IF spot.x # 0 /\ hold.inputs.fire
            THEN [Loaded(Onion([x |-> spot.x + 40, y |-> 0], INITIAL_GAMESTATE.onionSpeed), 4)
                  EXCEPT !.y = spot.y + 20]
            ELSE [Loaded(Onion([x |-> spot.x, y |-> 0], INITIAL_GAMESTATE.onionSpeed), 4)
                  EXCEPT !.y = spot.y + 44]
      [] kind = "KnifeNear" ->
            [Loaded(Knife(STATE_GROUNDED, spot.y + 2 * 32 - (IF spot.x = 0 THEN 2 ELSE 0)), 9)
             EXCEPT !.x = spot.x + (IF spot.x = 0 THEN 46 ELSE 48)]
      [] kind = "KnifeBack" ->
            [Loaded(Knife(STATE_THROWN, spot.y + 2 * 32), 1)
             EXCEPT !.x = spot.x + 50, !.velocity = <<-(2 * 6), 0>>]
      [] kind = "BroccoliOut" ->
            [Loaded(Broccoli(2 * 40), 7) EXCEPT !.x = -62]

\* gamestate.knives, gamestate.score and the stored high score
Totals == { [knives |-> 3, score |-> 0, hi |-> 0],
            [knives |-> 0, score |-> 1000, hi |-> 1000],
            [knives |-> 1, score |-> 5100, hi |-> 1000] }

\* The keys held down and gamestate.knifeThrowCooldown: nothing held, or left and
\* fire held with the cooldown over at the next tick
Holds == { [inputs |-> NoInputs, cooldown |-> 7],
           [inputs |-> [NoInputs EXCEPT !.left = TRUE, !.fire = TRUE], cooldown |-> 1] }

\* Can the run have come to this?  The Player is at the left edge for as long as
\* left is held.  A deflected Knife (12 half pixels a tick) has left the playfield
\* by the time the Lamb it killed (6 a tick) has, and the next Lamb comes after that.
Plausible(spot, hold, lamb, extras, tot) ==
    /\ Cardinality(extras) <= MaxExtras
    /\ spot.x = 0 => hold.inputs.left
    /\ "OnionNear" \in extras => tot.score > INITIAL_GAMESTATE.minOnionScore
    /\ "KnifeBack" \in extras => tot.score >= 1000 /\ lamb = "nearDead"
    /\ lamb = "nearDead" => tot.score >= 1000

\* The kinds of `extras`, in the order of ExtraKinds
ExtraSeq(extras) == SelectSeq(ExtraKinds, LAMBDA k : k \in extras)

\* The sprites of a drawn state: Player (1), Lamb (2), the extras, and in the
\* background one road line and one sidewalk (the last two ids)
DrawnHeap(spot, lamb, extras, knives, hold) ==
    LET ex == ExtraSeq(extras)
        n == Len(ex)
    IN [i \in 1..(n + 4) |->
           CASE i = 1 -> PlayerAt(spot, knives)
             [] i = 2 -> LambOf(lamb, spot)
             [] i = n + 3 -> [Loaded(RoadLine(ROAD_LINE_YS[1]), 30) EXCEPT !.x = 2 * 200]
             [] i = n + 4 -> [Loaded(Sidewalk, 30) EXCEPT !.x = -254]
             [] OTHER -> Extra(ex[i - 2], spot, hold)]

\* gamestate of a drawn state
DrawnGamestate(h, n, tot, hold) ==
    [INITIAL_GAMESTATE EXCEPT
        !.phase = PHASE_RUNNING,
        !.sprites = SortByY(h, [i \in 1..(n + 2) |-> i]),
        !.bgsprites = <<n + 3, n + 4>>,
        !.inputs = hold.inputs,
        !.player = 1,
        !.lamb = 2,
        !.knives = tot.knives,
        !.score = tot.score,
        !.knifeThrowCooldown = hold.cooldown,
        !.nextBroccoli = 17,
        !.nextOnion = IF \E i \in DOMAIN h : h[i].name = "Onion" THEN 120 ELSE 0,
        !.nextKnife = 230,
        !.nextRoadLine = 50,
        !.nextSidewalk = 20]

InitRun ==
    \E spot \in PlayerSpots, lamb \in LambKinds, extras \in SUBSET SeqToSet(ExtraKinds),
       tot \in Totals, hold \in Holds :
        /\ Plausible(spot, hold, lamb, extras, tot)
        /\ heap = DrawnHeap(spot, lamb, extras, tot.knives, hold)
        /\ gamestate = DrawnGamestate(heap, Cardinality(extras), tot, hold)
        /\ hiScore = tot.hi
        /\ currentBgMusic = "runningmusic"
        /\ ready = TRUE
        /\ started = TRUE
        /\ log = << >>
        /\ run = NewRun(tot.hi)
        /\ budget = [ticks |-> MaxRunTicks, inputs |-> MaxRunEvents,
                     loads |-> MaxRunEvents, events |-> MaxRunEvents]

\* Inside a run the sounds have been loaded long ago
NextRun ==
    \/ Click
    \/ KeyDown
    \/ KeyUp
    \/ ImageLoaded
    \/ FramesReady
    \/ GameLoop

SpecRun == InitRun /\ [][NextRun]_vars

\* The Player of a run whose sheet (Player.png) is still loading: it has walked
\* left from its start position, PLAYFIELD_WIDTH / 4 = 50 steps of 2.5 px, and
\* nothing has clamped it
SlowPlayer(knives) ==
    [setAnimation(Player, IF knives = 0 THEN "walking" ELSE "wielding") EXCEPT !.x = 0]

\* A run in which the Player's image has not loaded yet
InitSlow ==
    \E spot \in {p \in PlayerSpots : p.x = 0}, lamb \in LambKinds,
       extras \in SUBSET SeqToSet(ExtraKinds), tot \in Totals, hold \in Holds :
        /\ Plausible(spot, hold, lamb, extras, tot)
        /\ heap = [DrawnHeap(spot, lamb, extras, tot.knives, hold)
                   EXCEPT ![1] = SlowPlayer(tot.knives)]
        /\ gamestate = DrawnGamestate(heap, Cardinality(extras), tot, hold)
        /\ hiScore = tot.hi
        /\ currentBgMusic = "runningmusic"
        /\ ready = TRUE
        /\ started = TRUE
        /\ log = << >>
        /\ run = NewRun(tot.hi)
        /\ budget = [ticks |-> MaxRunTicks, inputs |-> MaxRunEvents,
                     loads |-> MaxRunEvents, events |-> MaxRunEvents]

SpecSlow == InitSlow /\ [][NextRun]_vars


---------------------------------------------------------------------------
(* The animation clock of one sprite: setAnimation() and nextFrame() calls on a     *)
(* sprite of any class, in any of its animations, ready from the start or while its  *)
(* sheet loads.  `run` counts the calls since the last setAnimation() that returned  *)
(* a frame, those of them that went on to another step (they put the per-frame       *)
(* counter back) and the calls that returned null, and keeps what the last call      *)
(* returned.                                                                         *)

SpriteNames ==
    {"TitleScreen", "ClickToStart", "Credits", "GameOver", "NewHiScore", "Player",
     "Lamb", "Broccoli", "Onion", "Knife", "Road Line", "Sidewalk"}

\* The clock history right after setAnimation()
NewClock == [calls |-> 0, moves |-> 0, shown |-> -1, nulls |-> 0]

\* The clock history after a nextFrame() call that took sprite s to t and returned image
Clocked(s, t, image) ==
    IF image = -1
    THEN [run EXCEPT !.shown = -1, !.nulls = IF @ < MaxNulls THEN @ + 1 ELSE @]
    ELSE [run EXCEPT !.calls = @ + 1,
                     !.moves = @ + (IF t.animFrameStep <= s.animFrameStep THEN 1 ELSE 0),
                     !.shown = image]

\* new <class>(), for the class that names its sprites `name`
New(name) ==
    CASE name = "TitleScreen" -> TitleScreen
      [] name = "ClickToStart" -> ClickToStart
      [] name = "Credits" -> Credits
      [] name = "GameOver" -> GameOverMessage
      [] name = "NewHiScore" -> NewHiScore
      [] name = "Player" -> Player
      [] name = "Lamb" -> Lamb(2 * 40)
      [] name = "Broccoli" -> Broccoli(2 * 40)
      [] name = "Onion" -> Onion(Player, INITIAL_GAMESTATE.onionSpeed)
      [] name = "Knife" -> Knife(STATE_GROUNDED, 2 * 60)
      [] name = "Road Line" -> RoadLine(ROAD_LINE_YS[1])
      [] name = "Sidewalk" -> Sidewalk

\* A sprite as its constructor leaves it, its sheet loaded and its frames cut, or
\* still to be loaded
InitAnim ==
    \E name \in SpriteNames, loaded \in BOOLEAN :
        /\ heap = [i \in {1} |-> IF loaded THEN Loaded(New(name), 0) ELSE New(name)]
        /\ gamestate = [INITIAL_GAMESTATE EXCEPT !.sprites = <<1>>]
        /\ hiScore = 0
        /\ currentBgMusic = ""
        /\ ready = TRUE
        /\ started = TRUE
        /\ log = << >>
        /\ run = NewClock
        /\ budget = [ticks |-> MaxCalls, inputs |-> 0, loads |-> 2, events |-> 2]

\* sprite.setAnimation(anim)
SetAnimation ==
    \E anim \in DOMAIN Animations(heap[1].name) :
        /\ heap' = [heap EXCEPT ![1] = setAnimation(@, anim)]
        /\ run' = NewClock
        /\ budget' = [budget EXCEPT !.ticks = MaxCalls]
        /\ UNCHANGED <<gamestate, hiScore, currentBgMusic, ready, started, log>>

\* sprite.nextFrame()
NextFrame ==
    /\ budget.ticks > 0
    /\ heap' = [heap EXCEPT ![1] = nextFrame(@).sprite]
    /\ run' = Clocked(heap[1], heap'[1], nextFrame(heap[1]).image)
    /\ budget' = IF nextFrame(heap[1]).image = -1 THEN budget
                 ELSE [budget EXCEPT !.ticks = @ - 1]
    /\ UNCHANGED <<gamestate, hiScore, currentBgMusic, ready, started, log>>

NextAnim ==
    \/ SetAnimation
    \/ NextFrame
    \/ ImageLoaded
    \/ FramesReady

SpecAnim == InitAnim /\ [][NextAnim]_vars

---------------------------------------------------------------------------
(* Properties *)

\* The events of kind t in what the last handler did
Events(t) == SelectSeq(log, LAMBDA e : e.t = t)

\* The handler that ran last
Handler == IF log = << >> THEN "" ELSE log[1].p

\* The changes of gamestate.phase the design allows
PhaseChanges ==
    { <<PHASE_ATTRACT, PHASE_RUNNING>>, <<PHASE_RUNNING, PHASE_GAME_OVER>>,
      <<PHASE_GAME_OVER, PHASE_ATTRACT>> }

\* One step changes gamestate.phase along the design's edges only: to Running or to
\* Attract in a key or click listener, to GameOver in a tick in which the Player dies
PhaseStep ==
    gamestate.phase' # gamestate.phase =>
        /\ <<gamestate.phase, gamestate.phase'>> \in PhaseChanges
        /\ IF gamestate.phase' = PHASE_GAME_OVER
           THEN log'[1].p = "gameloop" /\ \E i \in DOMAIN log' : log'[i].t = "die"
           ELSE log'[1].p \in {"click", "keydown"}

\* C1: gamestate.phase changes only Attract->Running (on a start input),
\* Running->GameOver (when the Player is defeated) and GameOver->Attract (on a start
\* input), however ticks, inputs and the end of the sound load interleave
PhaseOrder == [][PhaseStep]_vars

\* The "phase" entries of the last handler that entered PHASE_RUNNING
Resets == SelectSeq(log, LAMBDA e : e.t = "phase" /\ e.q = PHASE_RUNNING)

\* What the "keydown" listener sets after startGameAndSound() has returned
AfterReset == IF Handler = "keydown" THEN PressKey([gs |-> INITIAL_GAMESTATE], log[1].q).gs.inputs
              ELSE NoInputs

\* C2: right after setGamePhase(PHASE_RUNNING), whatever the Game State was, the
\* Game State is a fresh copy of INITIAL_GAMESTATE in phase Running (score 0, 3
\* knives, frameDelay 10, the timers, the cooldown and gameOverMusicDelay at their
\* initial values, no input held, no background entity) whose foreground collection
\* holds one entity, a new Player, which is gamestate.player
RunReset ==
    Resets # << >> =>
        /\ gamestate = [INITIAL_GAMESTATE EXCEPT
                           !.phase = PHASE_RUNNING,
                           !.sprites = << gamestate.player >>,
                           !.player = gamestate.player,
                           !.inputs = AfterReset]
        /\ gamestate.score = 0 /\ gamestate.knives = 3 /\ gamestate.frameDelay = 10
        /\ gamestate.bgsprites = << >>
        /\ gamestate.player \in DOMAIN heap
        /\ heap[gamestate.player] = Player

\* A click in the attract phase starts a run over what the run before left: a score,
\* background entities, spent knives, held keys
RunResetOverLeftovers ==
    /\ Resets # << >>
    /\ Handler = "click"
    /\ Resets[1].p = PHASE_ATTRACT
    /\ Resets[1].a > 0
    /\ Resets[1].b > 0
    /\ Resets[1].l # << >>

\* How many entities named `name` the foreground collection holds
Overlays(name) ==
    Cardinality({i \in DOMAIN gamestate.sprites : heap[gamestate.sprites[i]].name = name})

\* The run has ended in a defeat with a score above the stored high score
RecordDefeat ==
    /\ gamestate.phase = PHASE_GAME_OVER
    /\ run.defeats >= 1
    /\ run.score > run.hiBefore

\* C3: a defeat with a score above the stored high score sets the stored high score
\* to the score exactly once and adds exactly one game-over overlay and exactly one
\* new-high-score overlay, whatever overlaps the Player in the defeating tick, and
\* for as long as the game stays in GameOver
HiScoreOnce ==
    RecordDefeat =>
        /\ hiScore = run.score
        /\ run.hiSets = 1
        /\ Overlays("GameOver") = 1
        /\ Overlays("NewHiScore") = 1

\* The last handler was a tick that began in `phase`
TickIn(phase) ==
    /\ Len(log) >= 2
    /\ log[1].p = "gameloop"
    /\ log[2].t = "tick" /\ log[2].p = phase

\* The foreground collection as the last interaction pass found it
AtInteraction ==
    LET starts == SelectSeq(log, LAMBDA e : e.t = "pass" /\ e.p = "interact")
    IN IF starts = << >> THEN << >> ELSE starts[1].l

\* What the last interaction pass found: the score, the knives, the overlapping pairs
Found == SelectSeq(log, LAMBDA e : e.t = "moved")[1]

\* Did a and b overlap when the last interaction pass began?
Overlapped(a, b) == \E k \in DOMAIN Found.l : Found.l[k] = <<a, b>>

\* The entities named `name` whose hit-rectangle overlapped the Player's when the last
\* interaction pass began, the Player being in the foreground collection
OnPlayer(name) ==
    {id \in SeqToSet(AtInteraction) \cap DOMAIN heap :
             /\ heap[id].name = name
             /\ Overlapped(gamestate.player, id)}

\* C4: when a Broccoli or an Onion of the foreground collection overlaps the Player
\* at the interaction pass of a Running tick, the tick ends in phase GameOver with a
\* game-over overlay in the foreground collection and frameDelay 100
HazardDefeat ==
    TickIn(PHASE_RUNNING) /\ OnPlayer("Broccoli") \cup OnPlayer("Onion") # {} =>
        /\ gamestate.phase = PHASE_GAME_OVER
        /\ Overlays("GameOver") >= 1
        /\ gamestate.frameDelay = 100

\* A Running tick whose interaction pass found a Broccoli on the Player
BroccoliOnPlayer == TickIn(PHASE_RUNNING) /\ OnPlayer("Broccoli") # {}

\* Nothing but a and b overlapped a or b when the last interaction pass began
Alone(a, b) ==
    \A k \in DOMAIN Found.l :
        {Found.l[k][1], Found.l[k][2]} \cap {a, b} # {} => {Found.l[k][1], Found.l[k][2]} = {a, b}

\* Was the Lamb dead when the last interaction pass began?
DeadBefore(lamb) == heap[lamb].dead /\ \A i \in DOMAIN log : ~(log[i].t = "killed" /\ log[i].a = lamb)

\* The Lambs that overlapped the Player, and nothing else did either, when the last
\* interaction pass of a Running tick began
LambsMet == IF TickIn(PHASE_RUNNING)
            THEN {id \in OnPlayer("Lamb") : Alone(gamestate.player, id)}
            ELSE {}

\* C5: an interaction pass over a Player and an alive Lamb that overlap, with at
\* least one knife and nothing else overlapping either, leaves the Lamb dead, one
\* knife less and the score 1000 higher; with no knife, or with the Lamb dead
\* already, it changes none of lamb.dead, knives and score
PlayerMeetsLamb ==
    \A lamb \in LambsMet :
        IF Found.b >= 1 /\ ~DeadBefore(lamb)
        THEN /\ heap[lamb].dead
             /\ gamestate.knives = Found.b - 1
             /\ gamestate.score = Found.a + 1000
        ELSE /\ heap[lamb].dead = DeadBefore(lamb)
             /\ gamestate.knives = Found.b
             /\ gamestate.score = Found.a

\* The Player has met an alive Lamb with a knife in hand
LambKilledByHand == \E lamb \in LambsMet : Found.b >= 1 /\ ~DeadBefore(lamb)

\* The sprite whose clock SpecAnim follows, its step list and the duration of step 0
Clock == heap[1]
Steps == AnimationOf(Clock)
FirstDuration == Steps[1][2]

\* The step after step 0: from the last step the index wraps to 0
SecondStep == IF Len(Steps) = 1 THEN 0 ELSE 1

\* C6, as stated: N nextFrame() calls after setAnimation(), N the duration of step
\* 0, move the step index to the next step exactly once
StepAdvanceAfterN ==
    run.calls = FirstDuration => run.moves = 1 /\ Clock.animFrame = SecondStep

\* C6, amended: after setAnimation() the first N nextFrame() calls return the frame
\* of step 0 and leave the step index at 0, the per-frame counter counting the calls;
\* call N + 1 moves the step index to the next step, exactly once, and returns the
\* frame of that step
StepAdvanceAfterNPlus1 ==
    /\ run.calls \in 1..FirstDuration =>
            /\ run.moves = 0
            /\ Clock.animFrame = 0
            /\ Clock.animFrameStep = run.calls
            /\ run.shown = Steps[1][1]
    /\ run.calls = FirstDuration + 1 =>
            /\ run.moves = 1
            /\ Clock.animFrame = SecondStep
            /\ Clock.animFrameStep = 1
            /\ run.shown = Steps[SecondStep + 1][1]

\* Call N + 1 has taken a sprite from step 0 to step 1 of an animation of several steps
SecondStepReached ==
    /\ run.calls = FirstDuration + 1
    /\ Len(Steps) > 1
    /\ Clock.animFrame = 1

\* Where in the history the passes named `pass` begin, and where the pass that begins
\* at i ends
PassesOf(pass) == {i \in DOMAIN log : log[i].t = "pass" /\ log[i].p = pass}
EndOf(i) == CHOOSE j \in DOMAIN log : /\ j > i
                                      /\ log[j].t = "passed"
                                      /\ \A k \in (i + 1)..(j - 1) : log[k].t # "passed"

\* The entries of kind t about entity id within the pass that begins at i
Within(i, t, id) == {k \in (i + 1)..(EndOf(i) - 1) : log[k].t = t /\ log[k].a = id}

\* The entities appended to the collection within the pass that begins at i
Appended(i) == {log[k].a : k \in {k \in (i + 1)..(EndOf(i) - 1) : log[k].t = "push"}}

\* The movement pass that begins at i: every entity there at the start is moved once;
\* it is gone at the end exactly if it was finished right after its move, removed then
\* and there; nothing else is moved or removed; what was appended is still there
MovedOnce(i) ==
    LET before == SeqToSet(log[i].l)
        after == SeqToSet(log[EndOf(i)].l)
    IN /\ \A id \in before :
              /\ Cardinality(Within(i, "move", id)) = 1
              /\ \A k \in Within(i, "move", id) :
                     /\ id \notin after <=> log[k].b = 1
                     /\ log[k].b = 1 => log[k + 1].t = "remove" /\ log[k + 1].a = id
              /\ Cardinality(Within(i, "remove", id)) <= 1
       /\ \A k \in (i + 1)..(EndOf(i) - 1) :
              log[k].t \in {"move", "remove"} => log[k].a \in before
       /\ after \subseteq before \cup Appended(i)
       /\ log[i].a = 1 => Appended(i) \subseteq after

\* C7: one call of move(collection) moves every entity of the collection exactly once
\* and removes it exactly if finished() holds right after its own move; removals make
\* it skip or repeat nothing; a Knife that Player.move appends is neither moved nor
\* removed and is in the collection when the pass ends
MovePassCoverage == \A i \in PassesOf("move") : MovedOnce(i)

\* A movement pass over the foreground collection that removed an entity, moved
\* entities before and after it, and had a Knife appended by Player.move
MovePassRemovedAndAppended ==
    \E i \in PassesOf("move") :
        /\ log[i].a = 1
        /\ Appended(i) # {}
        /\ \E k \in 2..(Len(log[i].l) - 1) : Within(i, "remove", log[i].l[k]) # {}

\* The scans of the interaction pass that begins at i, and where the scan that
\* begins at k ends
ScansOf(i) == {k \in (i + 1)..(EndOf(i) - 1) : log[k].t = "scan"}
ScannedAt(k) == CHOOSE e \in DOMAIN log : /\ e > k
                                          /\ log[e].t = "scanned"
                                          /\ \A j \in (k + 1)..(e - 1) : log[j].t # "scanned"

\* The s1.interact(s2) calls between k and e: who called, and on whom, in order
Calls(k, e) == SelectSeq(SubSeq(log, k + 1, e - 1), LAMBDA c : c.t = "interact")

\* q without the element id
Without(q, id) == SelectSeq(q, LAMBDA x : x # id)

\* The collection that the step after the scan ending at e finds
NextFound(e) ==
    LET later == {j \in DOMAIN log : j > e /\ log[j].t \in {"scan", "passed"}}
    IN log[CHOOSE j \in later : \A m \in later : j <= m].l

\* The scan that begins at k: s1 stands at the index scanned; it calls interact once
\* on each element of the collection, those appended meanwhile included, itself
\* included; then s1, and nothing else, is removed exactly if it is finished
ScannedOnce(k) ==
    LET s1 == log[k].a
        e == ScannedAt(k)
        calls == Calls(k, e)
    IN /\ log[k].l[log[k].b] = s1
       /\ log[e].a = s1
       /\ SubSeq(log[e].l, 1, Len(log[k].l)) = log[k].l
       /\ [c \in DOMAIN calls |-> calls[c].b] = log[e].l
       /\ \A c \in DOMAIN calls : calls[c].a = s1
       /\ Cardinality(SeqToSet(log[e].l)) = Len(log[e].l)
       /\ log[e].b = 1 <=> log[e + 1].t = "remove"
       /\ NextFound(e) = IF log[e].b = 1 THEN Without(log[e].l, s1) ELSE log[e].l

\* C8: one call of interact(collection), whatever the order of the collection,
\* gives every entity there at the start one scan, and no other entity a scan; a scan
\* calls s1.interact(s2) once for every s2 of the collection, s1 and the overlays
\* appended so far included; after its scan s1 is removed exactly if it is finished,
\* and s1 only
InteractPassCoverage ==
    \A i \in PassesOf("interact") :
        /\ \A id \in SeqToSet(log[i].l) :
               Cardinality({k \in ScansOf(i) : log[k].a = id}) = 1
        /\ \A k \in ScansOf(i) : log[k].a \in SeqToSet(log[i].l) /\ ScannedOnce(k)

\* An interaction pass in which a scan appended overlays and a later scan ended
\* with the removal of its entity
RemovedAfterAppend ==
    \E i \in PassesOf("interact") :
        \E k \in ScansOf(i) :
            /\ Len(log[ScannedAt(k)].l) > Len(log[k].l)
            /\ \E r \in ScannedAt(k)..EndOf(i) : log[r].t = "remove"

RECURSIVE Total(_)
\* The sum of the amounts of a sequence of "score" entries
Total(ev) == IF ev = << >> THEN 0 ELSE ev[1].a + Total(Tail(ev))

\* One step of the program and gamestate.score: it stays a natural number; a handler
\* that enters PHASE_RUNNING, from PHASE_ATTRACT, puts it to 0; any other handler adds
\* to it 100 for each pickup of a grounded Knife and 1000 for each Lamb killed
ScoreStep ==
    LET after == log'
        scores == SelectSeq(after, LAMBDA e : e.t = "score")
        resets == SelectSeq(after, LAMBDA e : e.t = "phase" /\ e.q = PHASE_RUNNING)
    IN /\ gamestate.score' \in Nat
       /\ \A k \in DOMAIN after :
              after[k].t = "score" =>
                  \/ after[k].a = 100 /\ after[k - 1].t = "pickup"
                  \/ after[k].a = 1000 /\ after[k - 1].t = "killed"
       /\ IF resets # << >>
          THEN /\ gamestate.score' = 0
               /\ scores = << >>
               /\ \A k \in DOMAIN resets : resets[k].p = PHASE_ATTRACT
          ELSE gamestate.score' = gamestate.score + Total(scores)

\* C9: gamestate.score is a non-negative integer at all times; it never decreases
\* within a run and changes only by +100 (pickup of a grounded Knife) and +1000 (a
\* Lamb killed); only the change from Attract to Running sets it back to 0
ScoreMonotonic == [][ScoreStep]_vars

\* A tick has raised the score by a pickup and by a kill
ScoredBothWays ==
    /\ \E k \in DOMAIN log : log[k].t = "score" /\ log[k].a = 100
    /\ \E k \in DOMAIN log : log[k].t = "score" /\ log[k].a = 1000

\* The hit-rectangle of s: the half-open intervals [left, right) and [top, bottom)
Rect(s) == [left |-> s.x + s.hitbox.x, right |-> s.x + s.hitbox.x + s.hitbox.w,
            top |-> s.y + s.hitbox.y, bottom |-> s.y + s.hitbox.y + s.hitbox.h]

Max(m, n) == IF m >= n THEN m ELSE n
Min(m, n) == IF m <= n THEN m ELSE n

\* Do the half-open intervals [a1, b1) and [a2, b2) share a point?
Meet(a1, b1, a2, b2) == Max(a1, a2) < Min(b1, b2)

\* Do the rectangles r and s overlap with positive area?
PositiveOverlap(r, s) ==
    /\ Meet(r.left, r.right, s.left, s.right)
    /\ Meet(r.top, r.bottom, s.top, s.bottom)

\* C10: a.intersects(b) is falsy, and no error, when a or b has no hit-rectangle;
\* when both have one it is true exactly when the rectangles
\* [x + hitbox.x, x + hitbox.x + hitbox.w) x [y + hitbox.y, y + hitbox.y + hitbox.h)
\* overlap with positive area, so not when they only touch along an edge
IntersectsIsOverlap ==
    \A a \in DOMAIN heap, b \in DOMAIN heap :
        IF ~heap[a].hasHitbox \/ ~heap[b].hasHitbox
        THEN intersects(heap[a], heap[b]) = "undefined"
        ELSE intersects(heap[a], heap[b]) =
                 IF PositiveOverlap(Rect(heap[a]), Rect(heap[b])) THEN "true" ELSE "false"

\* A Knife just thrown and its Player: the right edge of the Player's hit-rectangle
\* is the left edge of the Knife's, they are level, and they do not intersect
EdgeToEdge ==
    \E k \in DOMAIN log :
        /\ log[k].t = "throw"
        /\ {log[k].a, log[k].b} \subseteq DOMAIN heap
        /\ Rect(heap[log[k].b]).right = Rect(heap[log[k].a]).left
        /\ Meet(Rect(heap[log[k].b]).top, Rect(heap[log[k].b]).bottom,
                Rect(heap[log[k].a]).top, Rect(heap[log[k].a]).bottom)
        /\ intersects(heap[log[k].b], heap[log[k].a]) = "false"

\* The s1.interact(s2) calls of the last handler, in order
AllCalls == Events("interact")

\* Is the entry at k followed by another call, or by the end of the scan, with
\* nothing done in between?
NothingDone(k) == k < Len(log) /\ log[k + 1].t \in {"interact", "scanned"}

\* C11: k1.interact(k2) on two Knives, in any motion states and at any positions,
\* k1 = k2 included, changes no field of any entity, nor score, knives or phase
KnifePairInert ==
    \A k \in DOMAIN log :
        log[k].t = "interact" /\ log[k].l[1] = "Knife" /\ log[k].l[3] = "Knife" =>
            log[k].q = "" /\ NothingDone(k)

\* A thrown Knife has called interact on a grounded Knife that overlaps it, and on
\* itself
ThrownOnGrounded ==
    /\ TickIn(PHASE_RUNNING)
    /\ \E k \in DOMAIN log :
           /\ log[k].t = "interact"
           /\ SubSeq(log[k].l, 1, 4) = << "Knife", STATE_THROWN, "Knife", STATE_GROUNDED >>
           /\ log[k].l[5] = "true"
           /\ Overlapped(log[k].a, log[k].b)
    /\ \E k \in DOMAIN log :
           /\ log[k].t = "interact" /\ log[k].a = log[k].b
           /\ log[k].l[1] = "Knife" /\ log[k].l[2] = STATE_THROWN

\* C12: gamestate.score is raised only while gamestate.phase is PHASE_RUNNING, at
\* every point of a handler and not only when a tick ends
ScoreOnlyRunning ==
    \A k \in DOMAIN log : log[k].t = "score" => log[k].p = PHASE_RUNNING

\* C13: when a tick ends in PHASE_GAME_OVER the Player's animation is "dead",
\* whatever overlapped the Player in the interaction pass that defeated it
DefeatedAnimation ==
    Handler = "gameloop" /\ gamestate.phase = PHASE_GAME_OVER =>
        /\ gamestate.player \in DOMAIN heap
        /\ heap[gamestate.player].animation = "dead"

\* The five countdowns of the spawn checks: the timer, its period, what it spawns
\* and how many of them, and into which collection
SpawnRules ==
    { [next |-> "nextBroccoli", period |-> "broccoliFrequency", name |-> "Broccoli",
       n |-> 1, t |-> "push"],
      [next |-> "nextRoadLine", period |-> "roadLineFrequency", name |-> "Road Line",
       n |-> Len(ROAD_LINE_YS), t |-> "pushbg"],
      [next |-> "nextSidewalk", period |-> "sidewalkFrequency", name |-> "Sidewalk",
       n |-> 1, t |-> "pushbg"],
      [next |-> "nextOnion", period |-> "onionFrequency", name |-> "Onion",
       n |-> 1, t |-> "push"],
      [next |-> "nextKnife", period |-> "knifeFrequency", name |-> "Knife",
       n |-> 1, t |-> "push"] }

\* How many entities named `name` the spawn checks of the handler with history h
\* have put into a collection
SpawnedBy(h, t, name) ==
    Cardinality({k \in DOMAIN h :
                    /\ h[k].t = t /\ h[k].p = name
                    /\ \A j \in 1..k : h[j].t # "pass"})

\* One step and the countdown of rule r: a tick that begins in PHASE_RUNNING takes
\* it down by 1, or from 0 to its period with the spawn done; it is never negative
\* nor above its period
TimerStep(r) ==
    /\ gamestate'[r.next] \in 0..gamestate'[r.period]
    /\ (Len(log') >= 2 /\ log'[1].p = "gameloop"
            /\ log'[2].t = "tick" /\ log'[2].p = PHASE_RUNNING) =>
          IF gamestate[r.next] = 0
          THEN /\ gamestate'[r.next] = gamestate[r.period]
               /\ SpawnedBy(log', r.t, r.name) = r.n
          ELSE /\ gamestate'[r.next] = gamestate[r.next] - 1
               /\ SpawnedBy(log', r.t, r.name) = 0

\* C14: every Running tick takes each of nextBroccoli, nextRoadLine, nextSidewalk,
\* nextOnion and nextKnife down by 1 or, from 0, back to its period with its spawn
\* done in that tick; none is left as it was, and each stays within 0..period
SpawnTimers == [][\A r \in SpawnRules : TimerStep(r)]_vars

\* One step and the Onions: an Onion is pushed only by the spawn check of a tick
\* that begins in PHASE_RUNNING with score above minOnionScore (nothing before the
\* check changes the score), and the foreground collection holds an Onion only
\* while the score of the run is above minOnionScore
OnionStep ==
    /\ (\E k \in DOMAIN log' : log'[k].t = "push" /\ log'[k].p = "Onion") =>
          /\ Len(log') >= 2 /\ log'[1].p = "gameloop"
          /\ log'[2].t = "tick" /\ log'[2].p = PHASE_RUNNING
          /\ gamestate.score > gamestate.minOnionScore
          /\ gamestate.minOnionScore = 5000
          /\ SpawnedBy(log', "push", "Onion") = 1
    /\ (\E i \in DOMAIN gamestate.sprites' : heap'[gamestate.sprites'[i]].name = "Onion") =>
          gamestate.score' > 5000

\* C15: an Onion is spawned only in a Running tick whose spawn check sees a score
\* above minOnionScore (5000); as long as the score of a run has not exceeded 5000
\* the foreground collection holds no Onion
OnionGate == [][OnionStep]_vars

\* The spawn check of a Running tick has just pushed an Onion
OnionSpawned ==
    /\ TickIn(PHASE_RUNNING)
    /\ \E k \in DOMAIN log : log[k].t = "push" /\ log[k].p = "Onion"
    /\ Overlays("Onion") >= 1
    /\ gamestate.nextOnion = gamestate.onionFrequency

\* The step is a tick that begins in PHASE_RUNNING
RunningTick ==
    /\ Len(log') >= 2 /\ log'[1].p = "gameloop"
    /\ log'[2].t = "tick" /\ log'[2].p = PHASE_RUNNING

\* The foreground collection as the spawn checks of the tick leave it: what the
\* movement pass over it finds
AfterSpawn ==
    log'[CHOOSE k \in DOMAIN log' :
             log'[k].t = "pass" /\ log'[k].p = "move" /\ log'[k].a = 1].l

\* The Lambs of AfterSpawn, those that the tick went on to remove included
LambsAfterSpawn ==
    {id \in SeqToSet(AfterSpawn) :
        \/ id \in DOMAIN heap' /\ heap'[id].name = "Lamb"
        \/ \E k \in DOMAIN log' :
               log'[k].t = "remove" /\ log'[k].a = id /\ log'[k].q = "Lamb"}

\* One Running tick and the Lamb: a Lamb is spawned exactly if the foreground
\* collection holds none when the tick begins, so that after the spawn checks it
\* holds one Lamb, gamestate.lamb
LambStep ==
    RunningTick =>
        /\ SpawnedBy(log', "push", "Lamb") =
               IF \E i \in DOMAIN gamestate.sprites :
                      heap[gamestate.sprites[i]].name = "Lamb"
               THEN 0 ELSE 1
        /\ LambsAfterSpawn = {gamestate.lamb'}

\* C16: the spawn step of every Running tick spawns a Lamb exactly if the
\* foreground collection holds none; after it the collection holds exactly one
\* Lamb, gamestate.lamb, whenever the Lamb's sheet loads
LambRespawn == [][LambStep]_vars

RECURSIVE CycleLength(_)
\* The calls one round of a step list takes when every step gets its duration
CycleLength(steps) == IF steps = << >> THEN 0 ELSE steps[1][2] + CycleLength(Tail(steps))

RECURSIVE StepAt(_, _, _)
\* In a round that gives every step its duration, from step k on: the step that
\* call c falls into, and the how-manieth call of that step it is
StepAt(steps, k, c) ==
    IF c <= steps[k][2] THEN <<k, c>> ELSE StepAt(steps, k + 1, c - steps[k][2])

\* Where the call that returned the last frame stands, when every step is shown for
\* as many calls as its duration, one step after the other, round after round
Due == StepAt(Steps, 1, ((run.calls - 1) % CycleLength(Steps)) + 1)

\* C17: without a switch of animation, a ready sprite's nextFrame() returns the
\* frame of each step for exactly as many consecutive calls as the step's duration,
\* the steps in list order and round after round, the step index within the list;
\* on a sprite that is not ready it returns null and leaves step index and
\* per-frame counter alone
StepDuration ==
    /\ Clock.animFrame \in 0..(Len(Steps) - 1)
    /\ Clock.ready /\ run.calls >= 1 =>
          /\ Clock.animFrame = Due[1] - 1
          /\ Clock.animFrameStep = Due[2]
          /\ run.shown = Steps[Due[1]][1]
    /\ ~Clock.ready =>
          /\ run.calls = 0 /\ run.shown = -1
          /\ Clock.animFrame = 0 /\ Clock.animFrameStep = 0

\* A sprite that returned null while its sheet was loading has since gone once
\* round an animation of several steps and is back at its first step
RoundCompleted ==
    /\ run.nulls > 0
    /\ Clock.ready
    /\ Len(Steps) > 1
    /\ run.calls = CycleLength(Steps) + 1
    /\ Clock.animFrame = 0 /\ Clock.animFrameStep = 1
    /\ run.moves = Len(Steps)

\* The pickups of the step, and the calls of the Player's interact on a grounded
\* Knife that overlaps it
Pickups == {k \in DOMAIN log' : log'[k].t = "picked"}
KnifeFound ==
    {k \in DOMAIN log' :
        /\ log'[k].t = "interact"
        /\ log'[k].l = << "Player", "", "Knife", STATE_GROUNDED, "true", "" >>}

\* Has the Knife been picked up already?  Only a pickup puts a Knife of the
\* foreground collection at x = -100
PickedBefore(id) == id \in DOMAIN heap /\ heap[id].name = "Knife" /\ heap[id].x = 2 * (-100)

\* One step and the pickups: each call of the Player's interact that finds a grounded
\* Knife on the Player is a pickup, and there is no other; a pickup adds 1 to knives
\* and 100 to the score, sets the Player's animation to "wielding" exactly if knives
\* was 0, and puts the Knife at x = -100; no Knife is picked up twice; a Running tick
\* removes the Knives picked up before it
PickupStep ==
    /\ \A k \in KnifeFound :
           /\ k + 3 \in Pickups
           /\ log'[k + 1].t = "pickup" /\ log'[k + 2].t = "score"
           /\ log'[k + 3].a = log'[k].a /\ log'[k + 3].b = log'[k].b
    /\ \A k \in Pickups :
           /\ k - 3 \in KnifeFound
           /\ log'[k].l[2] = log'[k].l[1] + 1
           /\ log'[k].l[4] = log'[k].l[3] + 100
           /\ log'[k].l[5] = 2 * (-100)
           /\ log'[k].q = "switched" <=> log'[k].l[1] = 0
           /\ log'[k].q = "switched" => log'[k].p = "wielding"
           /\ \A j \in Pickups : log'[j].b = log'[k].b => j = k
           /\ ~PickedBefore(log'[k].b)
    /\ RunningTick =>
           \A i \in DOMAIN gamestate.sprites :
               PickedBefore(gamestate.sprites[i]) =>
                   gamestate.sprites[i] \notin SeqToSet(gamestate.sprites')

\* C18: a grounded Knife that the Player's interaction finds overlapping adds
\* exactly 1 to knives and 100 to the score, makes the Player switch to "wielding"
\* exactly if knives went from 0 to 1, and is put at x = -100; it is picked up at
\* most once and, the phase staying Running, is out of the foreground collection by
\* the end of the next tick
GroundedPickup == [][PickupStep]_vars

\* A tick in which the Player, out of knives, picked up a Knife that is still in the
\* foreground collection when the tick ends
PickedUpLastKnife ==
    /\ TickIn(PHASE_RUNNING)
    /\ gamestate.phase = PHASE_RUNNING
    /\ \E k \in DOMAIN log :
           /\ log[k].t = "picked" /\ log[k].l[1] = 0 /\ log[k].q = "switched"
           /\ log[k].b \in SeqToSet(gamestate.sprites)
           /\ PickedBefore(log[k].b)

\* The calls of the step in which a thrown Knife's interact finds an alive Lamb on
\* the Knife, the hits of the step, and its kills
LambFound ==
    {k \in DOMAIN log' :
        /\ log'[k].t = "interact"
        /\ log'[k].l = << "Knife", STATE_THROWN, "Lamb", "", "true", "" >>}
Hits == {k \in DOMAIN log' : log'[k].t = "deflected"}
Kills == {k \in DOMAIN log' : log'[k].t = "killed"}

\* One step and the Lambs: a thrown Knife that finds an alive Lamb kills it, adds
\* 1000 to the score, turns its horizontal velocity round and takes a vertical
\* velocity in [-2 px, 2 px); nothing else deflects a Knife; a kill is of a Lamb
\* that was alive, one kill per Lamb, 1000 per kill; a dead Lamb stays dead
KillStep ==
    /\ \A k \in LambFound :
           /\ k + 1 \in Kills /\ log'[k + 1].a = log'[k].b
           /\ k + 3 \in Hits /\ log'[k + 3].a = log'[k].a /\ log'[k + 3].b = log'[k].b
    /\ \A k \in Hits :
           /\ k - 3 \in LambFound
           /\ log'[k].l[1] # 0 /\ log'[k].l[2] = -log'[k].l[1]
           /\ log'[k].l[3] \in (2 * (-2))..(2 * 2 - 1)
    /\ \A k \in Kills :
           /\ log'[k + 1].t = "score" /\ log'[k + 1].a = 1000
           /\ gamestate.score' >= log'[k + 1].b + 1000
           /\ \A j \in Kills : log'[j].a = log'[k].a => j = k
           /\ log'[k].a \in DOMAIN heap' /\ heap'[log'[k].a].name = "Lamb"
           /\ heap'[log'[k].a].dead
           /\ log'[k].a \in DOMAIN heap => ~heap[log'[k].a].dead
    /\ \A id \in DOMAIN heap \cap DOMAIN heap' : heap[id].dead => heap'[id].dead

\* C19: a thrown Knife whose interaction finds an alive Lamb overlapping it kills
\* the Lamb, adds exactly 1000 to the score, changes the sign of its horizontal
\* velocity and takes a vertical velocity in [-2, 2); a dead Lamb never comes back
\* to life and a Lamb adds 1000 to the score at most once, also when the Player
\* and thrown Knives overlap it in one interaction pass
ThrownKnifeKill == [][KillStep]_vars

\* A Lamb overlapped by the Player, knife in hand, and by a thrown Knife when the
\* interaction pass began has been killed, by the Knife, and has scored once
KilledUnderBoth ==
    /\ TickIn(PHASE_RUNNING)
    /\ Found.b >= 1
    /\ \E k \in DOMAIN log :
           /\ log[k].t = "deflected"
           /\ Overlapped(log[k].a, log[k].b)
           /\ Overlapped(gamestate.player, log[k].b)
           /\ Cardinality({j \in DOMAIN log : log[j].t = "score" /\ log[j].a = 1000}) = 1

\* The calls of the step in which a thrown Knife's interact finds an obstacle on the
\* Knife, and the calls of a grounded Knife's interact
ObstacleFound ==
    {k \in DOMAIN log' :
        /\ log'[k].t = "interact"
        /\ SubSeq(log'[k].l, 1, 2) = << "Knife", STATE_THROWN >>
        /\ log'[k].l[3] \in {"Broccoli", "Onion"}
        /\ log'[k].l[5] = "true"}
GroundedCalls ==
    {k \in DOMAIN log' :
        /\ log'[k].t = "interact"
        /\ SubSeq(log'[k].l, 1, 2) = << "Knife", STATE_GROUNDED >>}

\* Has the step picked up the Knife?
PickedNow(id) == \E k \in Pickups : log'[k].b = id

\* One step and the motion state of the Knives: a thrown Knife that finds a
\* Broccoli or an Onion on it is grounded from that call on; the calls of a grounded
\* Knife change nothing; a grounded Knife stays grounded, and a Running tick moves
\* it left by roadSpeed and not otherwise, unless the Player picks it up
KnifeStateStep ==
    /\ \A k \in ObstacleFound :
           /\ log'[k].q = "changed"
           /\ \A j \in DOMAIN log' :
                  j > k /\ log'[j].t = "interact" /\ log'[j].a = log'[k].a =>
                      log'[j].l[2] = STATE_GROUNDED
           /\ log'[k].a \in DOMAIN heap' =>
                  /\ heap'[log'[k].a].state = STATE_GROUNDED
                  /\ heap'[log'[k].a].animation = "grounded"
    /\ \A k \in GroundedCalls :
           log'[k].q = "" /\ log'[k + 1].t \in {"interact", "scanned"}
    /\ \A id \in DOMAIN heap \cap DOMAIN heap' :
           heap[id].name = "Knife" /\ heap[id].state = STATE_GROUNDED =>
               /\ heap'[id].state = STATE_GROUNDED
               /\ heap'[id].y = heap[id].y
               /\ heap'[id].x =
                      IF PickedNow(id) THEN 2 * (-100)
                      ELSE IF RunningTick /\ id \in SeqToSet(gamestate.sprites)
                      THEN heap[id].x - gamestate.roadSpeed
                      ELSE heap[id].x
    /\ gamestate.roadSpeed = 2 * 3

\* C20: a thrown Knife whose interaction finds a Broccoli or an Onion overlapping
\* it becomes grounded and from then on moves left at roadSpeed; the motion state
\* of a Knife goes from thrown to grounded only, never back; interact() of a
\* grounded Knife changes nothing
KnifeMotionState == [][KnifeStateStep]_vars

\* A Knife that the tick before grounded on a Broccoli has moved left by roadSpeed,
\* with the game still running
GroundedKnifeMoved ==
    /\ TickIn(PHASE_RUNNING)
    /\ \E id \in DOMAIN heap :
           /\ heap[id].name = "Knife" /\ heap[id].state = STATE_GROUNDED
           /\ heap[id].velocity[1] > 0
           /\ \E k \in DOMAIN log : log[k].t = "move" /\ log[k].a = id
           /\ \E k \in DOMAIN log :
                  /\ log[k].t = "interact" /\ log[k].a = id /\ log[k].l[3] = "Broccoli"
                  /\ log[k].l[2] = STATE_GROUNDED /\ log[k].q = ""

\* Is every entity of the foreground collection ready?
AllReadyNow == \A i \in DOMAIN gamestate.sprites : heap[gamestate.sprites[i]].ready

\* Is the step a gameloop() call?  (A call that leaves every variable as it was is
\* no step.)
LoopCall == Len(log') >= 1 /\ log'[1].p \in {"gameloop", "sounds"}

\* One step and the wait for the sprites: the wait ends in a gameloop() call that
\* finds every entity of the foreground collection ready, and that call is a
\* tick; a gameloop() call that does not end it leaves gamestate, the sprites, the
\* high score and the music as they were and does no spawn check, no pass and no
\* render; the wait once over is over for good
BarrierStep ==
    /\ ready => ready'
    /\ ~ready /\ ready' =>
           /\ LoopCall
           /\ \E k \in DOMAIN log' : log'[k].t = "tick"
           /\ IF log'[1].p = "gameloop" THEN AllReadyNow
              ELSE Len(gamestate'.sprites) = 0
    /\ ~ready' /\ LoopCall =>
           /\ log'[Len(log')].t = "poll"
           /\ \A k \in DOMAIN log' :
                  log'[k].t \notin {"tick", "pass", "move", "scan", "interact"}
           /\ hiScore' = hiScore
           /\ log'[1].p = "gameloop" =>
                  /\ gamestate' = gamestate
                  /\ heap' = heap
                  /\ currentBgMusic' = currentBgMusic
    /\ (\E k \in DOMAIN log' : log'[k].t = "tick") /\ log' # log => ready'

\* C21: once the game loop is started, no spawn check, pass or render runs until a
\* gameloop() call has found every entity of the foreground collection ready; until
\* then a call changes no game state; once the entities are ready the loop gets to
\* its ticks, unless a start input has put an entity that is not ready into the
\* collection before the next call, and it never waits again
ReadinessBarrier ==
    /\ [][BarrierStep]_vars
    /\ (started /\ AllReadyNow) ~> (ready \/ ~AllReadyNow)

\* The wait is over in a run that was started during the wait: the tick is the first
\* one, it is a tick of the running game, and the entities it has spawned are not
\* ready
WaitedForPlayer ==
    /\ ready
    /\ TickIn(PHASE_RUNNING)
    /\ budget.ticks = MaxLiveTicks - 1
    /\ heap[gamestate.player].ready
    /\ ~AllReadyNow

\* C22: whenever a handler has returned with the phase GameOver or Attract, the
\* stored high score is at least gamestate.score; and the high score never decreases
HiScoreDominates ==
    /\ [](gamestate.phase \in {PHASE_GAME_OVER, PHASE_ATTRACT} =>
              hiScore >= gamestate.score)
    /\ [][hiScore' >= hiScore]_vars

\* The pairs of overlapping entities the last interaction pass started with
TouchingAtPass ==
    UNION {SeqToSet(log[m].l) : m \in {i \in DOMAIN log : log[i].t = "moved"}}

\* C23: in the tick in which the Player throws a Knife, the new Knife does not
\* overlap the Player's hit-rectangle when the interaction pass starts, wherever the
\* Player is and whatever directions are held
ThrowClearOfPlayer ==
    \A k \in DOMAIN log :
        log[k].t = "throw" => << log[k].b, log[k].a >> \notin TouchingAtPass


\* The Players of the foreground collection
PlayersShown == {i \in DOMAIN gamestate.sprites : heap[gamestate.sprites[i]].name = "Player"}

\* C24: between ticks of the running phase the foreground collection holds exactly
\* one Player and it is gamestate.player: no movement or interaction pass removes
\* the Player, whatever is pressed and whenever the Player's image loads.
PlayerNeverPruned ==
    gamestate.phase = PHASE_RUNNING =>
        /\ Cardinality(PlayersShown) = 1
        /\ \A i \in PlayersShown : gamestate.sprites[i] = gamestate.player


\* The knives spent in the step, the Knives the Player threw, and the Lambs the
\* Player killed with the knife in its hand
Spent == {k \in DOMAIN log' : log'[k].t = "spend"}
Thrown == {k \in DOMAIN log' : log'[k].t = "throw"}
KilledByHand == {k \in Kills : k - 1 \in Spent}

\* The step begins a run
RunBegins == \E k \in DOMAIN log' : log'[k].t = "phase" /\ log'[k].q = PHASE_RUNNING

\* One step and the knives: knives is never negative; a new run begins with 3
\* knives and the cooldown at KNIFE_COOLDOWN_FRAMES; otherwise knives changes by
\* the pickups less the Knives thrown less the Lambs killed by hand, and every knife
\* spent is thrown or kills a Lamb; a Knife is thrown in a running tick only, with
\* fire held, a knife in hand and the cooldown at 0 after the tick's decrement, it is
\* a new thrown Knife, one per tick, and the cooldown is KNIFE_COOLDOWN_FRAMES
\* afterwards; a running tick without a throw takes 1 off the cooldown, down to 0 or
\* to KNIFE_COOLDOWN_FRAMES where fire is held and no knife is left, and nothing
\* else changes the cooldown
AmmoStep ==
    /\ gamestate.knives >= 0 /\ gamestate.knives' >= 0
    /\ gamestate.knives' =
           (IF RunBegins THEN INITIAL_GAMESTATE.knives ELSE gamestate.knives)
               + Cardinality(Pickups) - Cardinality(Thrown) - Cardinality(KilledByHand)
    /\ RunBegins => Pickups = {} /\ Spent = {} /\ INITIAL_GAMESTATE.knives = 3
    /\ \A k \in Spent : k + 2 \in Thrown \/ k + 1 \in KilledByHand
    /\ \A k \in Thrown :
           /\ k - 2 \in Spent
           /\ RunningTick
           /\ gamestate.inputs.fire
           /\ gamestate.knives >= 1
           /\ gamestate.knifeThrowCooldown <= 1
           /\ gamestate.knifeThrowCooldown' = KNIFE_COOLDOWN_FRAMES
           /\ log'[k].a \notin DOMAIN heap
           /\ log'[k].a \in DOMAIN heap' =>
                  /\ heap'[log'[k].a].name = "Knife"
                  /\ heap'[log'[k].a].state \in {STATE_THROWN, STATE_GROUNDED}
           /\ \A j \in Thrown : j = k
    /\ Thrown = {} =>
           gamestate.knifeThrowCooldown' =
               CASE RunBegins -> KNIFE_COOLDOWN_FRAMES
                 [] RunningTick /\ gamestate.inputs.fire
                        /\ gamestate.knifeThrowCooldown <= 1
                        /\ PlayersShown # {} -> KNIFE_COOLDOWN_FRAMES
                 [] RunningTick -> Max(gamestate.knifeThrowCooldown - 1, 0)
                 [] OTHER -> gamestate.knifeThrowCooldown

\* C25: knives is never negative and, within a run, is 3 plus the grounded Knives
\* picked up less the Knives the Player threw less the Lambs the Player killed by
\* contact; a Knife is thrown only in a tick with fire held, the cooldown at 0 and
\* a knife left, and the cooldown it starts keeps two throws at least
\* KNIFE_COOLDOWN_FRAMES (20) ticks apart
AmmoAccounting == [][AmmoStep]_vars

\* A tick in which the Player threw its last knife: 0 knives, the cooldown at 20
ThrewLastKnife ==
    /\ TickIn(PHASE_RUNNING)
    /\ \E k \in DOMAIN log : log[k].t = "throw"
    /\ gamestate.knives = 0
    /\ gamestate.knifeThrowCooldown = KNIFE_COOLDOWN_FRAMES


\* The entities the passes are to prune, and the entities of the two collections
Passing == {"Lamb", "Broccoli", "Onion", "Knife", "Road Line", "Sidewalk"}
Collected == SeqToSet(gamestate.sprites) \cup SeqToSet(gamestate.bgsprites)

\* How far an entity is from leaving the playfield, in half pixels on its way (the
\* widest sheet is the Sidewalk's), with the changes of way counted first: an alive
\* Lamb is yet to die or leave, a Knife flying right is yet to be deflected or
\* grounded, a deflected Knife is yet to be grounded
Distance(s) ==
    LET left == s.x + ImageWidth("Sidewalk")
    IN CASE s.name = "Lamb" -> (IF s.dead THEN 0 ELSE 1) * (4 * PLAYFIELD_WIDTH) + left
         [] s.name = "Onion" ->
               IF s.speed > 0 THEN PLAYFIELD_HEIGHT - s.y ELSE s.y + s.frameheight
         [] s.name = "Knife" /\ s.state = STATE_THROWN ->
               IF s.velocity[1] > 0
               THEN 2 * (4 * PLAYFIELD_WIDTH) + PLAYFIELD_WIDTH - s.x
               ELSE 4 * PLAYFIELD_WIDTH + left
         [] OTHER -> left

\* One step and the distances: between ticks of the running phase no collected
\* entity has a negative distance, and a running tick that leaves the phase Running
\* removes each of them from the collections or brings it nearer to leaving
PruneStep ==
    /\ gamestate.phase = PHASE_RUNNING =>
           \A id \in Collected : heap[id].name \in Passing => Distance(heap[id]) >= 0
    /\ RunningTick /\ gamestate.phase' = PHASE_RUNNING =>
           \A id \in Collected :
               heap[id].name \in Passing =>
                   \/ id \notin SeqToSet(gamestate.sprites') \cup SeqToSet(gamestate.bgsprites')
                   \/ /\ heap'[id].name = heap[id].name
                      /\ Distance(heap'[id]) < Distance(heap[id])
                      /\ Distance(heap'[id]) >= 0

\* C26: while the phase stays Running and ticks keep executing, every Lamb,
\* Broccoli, Onion, Knife (thrown, deflected or grounded), RoadLine and Sidewalk of
\* a collection is removed from it in the end: each tick removes it or takes it
\* nearer to the edge it leaves by, and its distance from there is never negative
EventualPruning == [][PruneStep]_vars

\* A running tick that has removed an entity from a collection and has moved a
\* Knife thrown in an earlier tick on towards the right edge
ThrownKnifeOnItsWay ==
    /\ TickIn(PHASE_RUNNING)
    /\ gamestate.phase = PHASE_RUNNING
    /\ \E k \in DOMAIN log : log[k].t = "remove" /\ log[k].q \in Passing
    /\ \E id \in Collected :
           /\ heap[id].name = "Knife" /\ heap[id].state = STATE_THROWN
           /\ heap[id].velocity[1] > 0
           /\ \A k \in DOMAIN log : log[k].t = "throw" => log[k].a # id

====
